---- MODULE Spec2Model ----
(***************************************************************************)
(* Verification model of the Facebook scraping engine of Hypa_server:      *)
(*   app/services/facebook/product/task_engine.py                          *)
(*   app/services/facebook/product/rate_limiter.py                         *)
(*                                                                         *)
(* Spec      one TaskEngine without Redis: get_facebook_metadata, the L1   *)
(*           cache, PureSingleFlight and _perform_scrape.                  *)
(* SpecRL    RateLimiter.acquire / release under the workers that run      *)
(*           _perform_scrape, with the 60 s window.                        *)
(* SpecRedis RedisCoordination: several processes contend for the lock of  *)
(*           a url, lead or follow, and get_facebook_metadata handles what *)
(*           the coordination raises.                                      *)
(* SpecCache, SpecPool, SpecL1, SpecThrottler, SpecScaler: the cache       *)
(*           manager, the browser pool, the L1 cache, the throttler and    *)
(*           the worker scaler, each under its callers.                    *)
(* SpecJobs  FacebookScraperAPI: jobs, the queue and the workers;          *)
(* SpecStream get_multiple_metadata_streaming called directly.             *)
(* SpecDo    the callers of one url sharing the future of PureSingleFlight *)
(*           and storing its result.                                       *)
(* SpecPs    the followers of one process on its shared Redis pubsub.      *)
(* SpecFlow  the order of the steps of get_facebook_metadata: cache        *)
(*           lookup, Redis coordination, single flight, rate slot, fetch.  *)
(*                                                                         *)
(* Python dicts are records whose DOMAIN is the dict's key set, so a       *)
(* missing key is a missing field.  Wall-clock time is kept as ages: every *)
(* stored time stamp is the number of ticks since it was taken.            *)
(***************************************************************************)
EXTENDS Integers, Sequences, FiniteSets, TLC

----------------------------------------------------------------------------
(* Bounds and configuration values of the model.                           *)

NCallers == 2        \* concurrent get_facebook_metadata calls
NKeys == 2           \* distinct URLs
MaxConcurrent == 1   \* RateLimiter(max_concurrent=...)
CacheTtl == 2        \* TaskEngine.cache_ttl, in ticks of 30 s
MaxSize == 1         \* SharedInMemoryCache(max_size=...)
NegativeTtl == 1     \* FacebookCacheManager.negative_cache_ttl: 30 s, one tick
MaxRetries == 3      \* max_retries of _perform_scrape

Callers == 1..NCallers
Keys == 1..NKeys
\* A future is named after the caller whose do() created it.
Futs == Callers
MaxAge == CacheTtl + 1
\* str(last_exception) as _perform_scrape classifies it.
ErrMsgs == {"rate", "checkpoint", "other"}

VARIABLES
  pc,         \* caller -> position in get_facebook_metadata
  ckey,       \* caller -> url of its request (0 before the request)
  cfut,       \* caller -> future it awaits in PureSingleFlight.do (0: none)
  ret,        \* caller -> what get_facebook_metadata gave it
  waitOrder,  \* callers inside wait_for, in the order their 45 s began
  futures,    \* PureSingleFlight._futures: key -> future (0: no entry)
  futState,   \* future -> "unused" | "pending" | "result" | "cancelled"
  futResult,  \* future -> result set on it
  task,       \* future -> the _execute_and_cleanup task created with it:
              \*   its position, key, retry_count, the last backoff wait and
              \*   the result fn returned
  sem,        \* RateLimiter._semaphore: free slots
  cache,      \* SharedInMemoryCache.cache, oldest first
  \* SpecRL
  wpc,        \* worker -> position in _perform_scrape / RateLimiter.acquire
  wretry,     \* worker -> retry_count of _perform_scrape
  rlSem,      \* RateLimiter._semaphore: free slots
  rlLock,     \* RateLimiter._lock: the worker holding it (0: free)
  rlStamps,   \* RateLimiter._timestamps as ages in ticks, oldest first
  fetchCnt,   \* age -> fetch_page_content calls started that long ago
  granted,    \* acquire() calls that returned and whose caller has not
              \* called release()
  \* SpecRedis
  rpc,        \* request -> position in the Redis-coordinated path
  rproc,      \* request -> process it runs in (0 before the request)
  rkey,       \* request -> url (0 before the request)
  rres,       \* request -> what get_facebook_metadata returned
  rexc,       \* request -> what execute_with_coordination raised
  lock,       \* url -> process id stored under its lock key (0: no key)
  renew,      \* request -> its _renew_lock task is running
  subs,       \* process -> channels its shared pubsub is subscribed to
  inbox,      \* process -> messages waiting in its pubsub, oldest first
  \* SpecCache
  l1,         \* engine -> its SharedInMemoryCache.cache, oldest first
  l2,         \* url -> the Redis key of RedisCache (None: no key)
  served,     \* what get_with_negative_cache returned, in the step after it
              \* returned (None otherwise, and for a miss)
  \* SpecPool
  ppc,        \* scraper -> position in get_page, or using the page
  pctx,       \* scraper -> (context, use_count) it took from the queue
  held,       \* scraper -> page get_page handed it (None: no page)
  pq,         \* BrowserPool._context_queue: (context, use_count), oldest first
  avail,      \* BrowserPool._context_pages_map: context -> list of pages
  made,       \* context -> pages created in it so far
  live,       \* contexts created and not closed
  created,    \* contexts created so far (they are numbered in that order)
  loans,      \* context -> pages handed out from it since it was created
  plock,      \* BrowserPool._context_lock: scraper holding it (0: free)
  active_pages, \* BrowserPool._active_pages, the gauge of pages in the pool
  broken,     \* pages whose navigation to about:blank failed in return_page
  \* SpecL1
  mc,         \* SharedInMemoryCache.cache, oldest first
  stat,       \* its counters: hits, misses, expiry_count, eviction_count
  lastOp,     \* the call that just returned: op, key, value returned and
              \* the metric it emitted
  \* Throttler
  current_delay,        \* AdaptiveThrottler.current_delay, in 1/64 of base_delay
  throttle_multiplier,  \* AdaptiveThrottler.throttle_multiplier, in 1/64
  rate_limit_events,    \* len(AdaptiveThrottler.rate_limit_events)
  rate_limit_counts,    \* AnomalyDetector.rate_limit_counts: ages of the events
  rl_values,            \* AnomalyDetector.rate_limit_detector.values
  cache_miss_events,    \* AdaptiveThrottler.cache_miss_events: is_miss of each
  throttle_reason,      \* AdaptiveThrottler.throttle_reason
  \* Scaler
  current_workers,   \* WorkerScaler.current_workers
  since_action,      \* ticks since WorkerScaler.last_scaling_action
  last_change,       \* ticks since the newest scaling_history entry that
  \* changed the worker count
  is_scaling_up_mode,    \* WorkerScaler.is_scaling_up_mode
  is_scaling_down_mode,  \* WorkerScaler.is_scaling_down_mode
  queue_wait_times,  \* mode -> WorkerScaler.queue_wait_times[mode], in 0.1 s
  queue_lengths,     \* mode -> WorkerScaler.queue_lengths[mode]
  loop,              \* the control loop's next call: "up" or "down"
  scaled,            \* the scaling call that just returned: op and ret
  \* Jobs
  active_jobs,       \* FacebookScraperAPI.active_jobs: job id -> job record
  job_queue,         \* FacebookScraperAPI.job_queue
  workers_started,   \* FacebookScraperAPI._workers_started
  wk,                \* worker -> where its _worker task is, and its generator
  gen,               \* a get_multiple_metadata_streaming call made directly
  \* Do
  dpc,               \* caller -> position in _execute_single_flight_scrape
  waiters,           \* callers awaiting the url's future, in the order they began
  fut_state,         \* the url's future in PureSingleFlight: none, pending, result
  ready,             \* callers the event loop will resume, next one first
  got,               \* callers to which pure_single_flight.do has returned
  l1_by,             \* callers whose write to the local cache is done
  l2_by,              \* callers whose write to the Redis cache is done
  \* Ps
  fpc,               \* follower -> position in _wait_as_follower
  fkey,              \* follower -> the url it waits for ("": none yet)
  fres,              \* follower -> the message it decoded and returned
  topics,            \* channels the process's one pubsub is subscribed to
  buffer,            \* messages that pubsub has received and not handed out
  leading,           \* urls whose lock a leader in another process holds
  \* Flow
  gpc,         \* request -> position in get_facebook_metadata
  gurl,        \* request -> url asked for ("" before the call)
  trail,       \* request -> the steps it has passed, in order
  via_redis,   \* request -> TRUE while it runs fn as the Redis leader
  nx_lock,     \* url -> holder of the Redis lock (0: free)
  flights,     \* url -> request whose task is in PureSingleFlight._futures
  stored,      \* urls the cache manager holds a result for
  slots,       \* permits of the rate limiter's semaphore in use
  redis_coordination  \* FALSE once initialize() has dropped it

varsSF == <<pc, ckey, cfut, ret, waitOrder, futures, futState, futResult,
            task, sem, cache>>
varsRL == <<wpc, wretry, rlSem, rlLock, rlStamps, fetchCnt, granted>>
varsRedis == <<rpc, rproc, rkey, rres, rexc, lock, renew, subs, inbox>>
varsCache == <<l1, l2, served>>
varsPool == <<ppc, pctx, held, pq, avail, made, live, created, loans, plock,
              active_pages, broken>>
varsL1 == <<mc, stat, lastOp>>
varsThrottler == <<current_delay, throttle_multiplier, rate_limit_events,
                  rate_limit_counts, rl_values, cache_miss_events,
                  throttle_reason>>
varsScaler == <<current_workers, since_action, last_change,
                is_scaling_up_mode, is_scaling_down_mode, queue_wait_times,
                queue_lengths, loop, scaled>>
varsJobs == <<active_jobs, job_queue, workers_started, wk, gen>>
varsDo == <<dpc, waiters, fut_state, ready, got, l1_by, l2_by>>
varsPs == <<fpc, fkey, fres, topics, buffer, leading>>
varsFlow == <<gpc, gurl, trail, via_redis, nx_lock, flights, stored, slots,
              redis_coordination>>
vars == <<varsSF, varsRL, varsRedis, varsCache, varsPool, varsL1,
          varsThrottler, varsScaler,
          varsJobs,
          varsDo,
          varsPs,
          varsFlow>>

----------------------------------------------------------------------------
(* Results.                                                                *)

NoRet == [none |-> TRUE]
CancelledError == [raised |-> "CancelledError"]

Has(r, f) == f \in DOMAIN r
Get(r, f, default) == IF Has(r, f) THEN r[f] ELSE default

\* _perform_scrape, success: {**fetch_result, **extracted_data,
\* success, from_cache, scrape_time}
OkResult(k) ==
  [url |-> k, title |-> k, success |-> TRUE, from_cache |-> FALSE]

\* _perform_scrape, all retries failed.
FailResult(k, e) == [url |-> k, error |-> e, success |-> FALSE]

\* get_facebook_metadata and _execute_single_flight_scrape: the result built
\* in "except Exception as e" around pure_single_flight.do
ExceptionResult(k, e) ==
  [url |-> k, error |-> e, success |-> FALSE, error_type |-> "scraping_error"]

----------------------------------------------------------------------------
(* SharedInMemoryCache: a sequence of [key, data, age, ttl], oldest first. *)

RECURSIVE IndexOf(_, _)
IndexOf(s, k) ==
  IF s = <<>> THEN 0
  ELSE IF s[Len(s)].key = k THEN Len(s)
  ELSE IndexOf(SubSeq(s, 1, Len(s) - 1), k)

Remove(s, i) == SubSeq(s, 1, i - 1) \o SubSeq(s, i + 1, Len(s))

\* get(): [val |-> the entry or None, cache |-> the cache afterwards]
None == [none |-> TRUE]
CacheGet(c, k) ==
  LET i == IndexOf(c, k) IN
  IF i = 0 THEN [val |-> None, cache |-> c]
  ELSE IF c[i].age > c[i].ttl THEN [val |-> None, cache |-> Remove(c, i)]
  ELSE [val |-> [data |-> c[i].data, ttl |-> c[i].ttl],
        cache |-> Append(Remove(c, i), c[i])]

\* set()
CacheSet(c, k, data, ttl) ==
  LET entry == [key |-> k, data |-> data, age |-> 0, ttl |-> ttl]
      c1 == IF Len(c) >= MaxSize THEN Tail(c) ELSE c
      i == IndexOf(c1, k)
  IN IF i = 0 THEN Append(c1, entry) ELSE [c1 EXCEPT ![i] = entry]

\* FacebookCacheManager.store_negative_result
\* ("timestamp": time.time() is kept as the age of the record.)
NegativeResult(errorInfo) ==
  [success |-> FALSE, error_type |-> errorInfo.type,
   error_message |-> errorInfo.message, timestamp |-> 0, from_cache |-> TRUE]

\* get_facebook_metadata after pure_single_flight.do returned result
StoreOutcome(c, k, result) ==
  IF Get(result, "success", FALSE)
  THEN CacheSet(c, k, result, CacheTtl)
  ELSE CacheSet(c, k,
                NegativeResult([type |-> Get(result, "error_type", "unknown"),
                                message |-> Get(result, "error", "Unknown error")]),
                NegativeTtl)

----------------------------------------------------------------------------
InitSF ==
  /\ pc = [c \in Callers |-> "idle"]
  /\ ckey = [c \in Callers |-> 0]
  /\ cfut = [c \in Callers |-> 0]
  /\ ret = [c \in Callers |-> NoRet]
  /\ waitOrder = <<>>
  /\ futures = [k \in Keys |-> 0]
  /\ futState = [f \in Futs |-> "unused"]
  /\ futResult = [f \in Futs |-> NoRet]
  /\ task = [f \in Futs |->
              [pc |-> "none", key |-> 0, retry |-> 0, wait |-> 0,
               result |-> NoRet]]
  /\ sem = MaxConcurrent
  /\ cache = <<>>

\* get_facebook_metadata up to the await inside PureSingleFlight.do.  Callers
\* and urls are interchangeable: they are taken into use in the order of
\* their numbers.
Request(c, k) ==
  /\ UNCHANGED <<varsRL, varsRedis, varsCache, varsPool, varsL1,
                 varsThrottler, varsScaler, varsJobs, varsDo, varsPs,
                 varsFlow>>
  /\ pc[c] = "idle"
  /\ IF c = 1 THEN TRUE ELSE pc[c - 1] # "idle"
  /\ IF k = 1 THEN TRUE ELSE \E d \in Callers : ckey[d] = k - 1
  /\ ckey' = [ckey EXCEPT ![c] = k]
  /\ LET g == CacheGet(cache, k) IN
     IF g.val # None
     THEN /\ cache' = g.cache
          /\ ret' = [ret EXCEPT ![c] = g.val @@ [from_cache |-> TRUE]]
          /\ pc' = [pc EXCEPT ![c] = "done"]
          /\ UNCHANGED <<cfut, waitOrder, futures, futState, task>>
     ELSE /\ cache' = g.cache
          /\ pc' = [pc EXCEPT ![c] = "waiting"]
          /\ waitOrder' = Append(waitOrder, c)
          /\ ret' = ret
          /\ IF futures[k] # 0
             THEN /\ cfut' = [cfut EXCEPT ![c] = futures[k]]
                  /\ UNCHANGED <<futures, futState, task>>
             ELSE /\ cfut' = [cfut EXCEPT ![c] = c]
                  /\ futures' = [futures EXCEPT ![k] = c]
                  /\ futState' = [futState EXCEPT ![c] = "pending"]
                  /\ task' = [task EXCEPT ![c] =
                                [pc |-> "acquire", key |-> k, retry |-> 0,
                                 wait |-> 0, result |-> NoRet]]
  /\ UNCHANGED <<futResult, sem>>

\* asyncio.wait_for(future, timeout): the 45 s of the caller that has waited
\* longest are over.  wait_for cancels what it awaits, here the shared future.
TimeoutFire(c) ==
  /\ UNCHANGED <<varsRL, varsRedis, varsCache, varsPool, varsL1,
                 varsThrottler, varsScaler, varsJobs, varsDo, varsPs,
                 varsFlow>>
  /\ pc[c] = "waiting"
  /\ waitOrder # <<>> /\ Head(waitOrder) = c
  /\ futState[cfut[c]] = "pending"
  /\ futState' = [futState EXCEPT ![cfut[c]] = "cancelled"]
  /\ pc' = [pc EXCEPT ![c] = "timedout"]
  /\ waitOrder' = Tail(waitOrder)
  /\ UNCHANGED <<ckey, cfut, ret, futures, futResult, task, sem, cache>>

\* do(): except asyncio.TimeoutError: self._futures.pop(key, None); raise
TimeoutPop(fs, k) == [fs EXCEPT ![k] = 0]

\* The caller resumes with TimeoutError: do()'s handler, then the
\* except Exception of get_facebook_metadata.
TimeoutCleanup(c) ==
  /\ UNCHANGED <<varsRL, varsRedis, varsCache, varsPool, varsL1,
                 varsThrottler, varsScaler, varsJobs, varsDo, varsPs,
                 varsFlow>>
  /\ pc[c] = "timedout"
  /\ futures' = TimeoutPop(futures, ckey[c])
  /\ ret' = [ret EXCEPT ![c] = ExceptionResult(ckey[c], "TimeoutError")]
  /\ pc' = [pc EXCEPT ![c] = "done"]
  /\ UNCHANGED <<ckey, cfut, waitOrder, futState, futResult, task, sem, cache>>

RemoveCaller(s, c) == SelectSeq(s, LAMBDA x : x # c)

\* The awaited future has a result: store it and return it.
Receive(c) ==
  /\ UNCHANGED <<varsRL, varsRedis, varsCache, varsPool, varsL1,
                 varsThrottler, varsScaler, varsJobs, varsDo, varsPs,
                 varsFlow>>
  /\ pc[c] = "waiting"
  /\ futState[cfut[c]] = "result"
  /\ cache' = StoreOutcome(cache, ckey[c], futResult[cfut[c]])
  /\ ret' = [ret EXCEPT ![c] = futResult[cfut[c]]]
  /\ pc' = [pc EXCEPT ![c] = "done"]
  /\ waitOrder' = RemoveCaller(waitOrder, c)
  /\ UNCHANGED <<ckey, cfut, futures, futState, futResult, task, sem>>

\* The awaited future was cancelled: CancelledError is no Exception, so it
\* leaves get_facebook_metadata uncaught.
Cancelled(c) ==
  /\ UNCHANGED <<varsRL, varsRedis, varsCache, varsPool, varsL1,
                 varsThrottler, varsScaler, varsJobs, varsDo, varsPs,
                 varsFlow>>
  /\ pc[c] = "waiting"
  /\ futState[cfut[c]] = "cancelled"
  /\ ret' = [ret EXCEPT ![c] = CancelledError]
  /\ pc' = [pc EXCEPT ![c] = "done"]
  /\ waitOrder' = RemoveCaller(waitOrder, c)
  /\ UNCHANGED <<ckey, cfut, futures, futState, futResult, task, sem, cache>>

----------------------------------------------------------------------------
(* The task PureSingleFlight.do creates: _execute_and_cleanup running      *)
(* _perform_scrape.                                                        *)

\* _perform_scrape: await self.rate_limiter.acquire().  The model runs fewer
\* scrapes than max_requests_per_minute, so only the semaphore can block.
Acquire(f) ==
  /\ UNCHANGED <<varsRL, varsRedis, varsCache, varsPool, varsL1,
                 varsThrottler, varsScaler, varsJobs, varsDo, varsPs,
                 varsFlow>>
  /\ task[f].pc = "acquire"
  /\ sem > 0
  /\ sem' = sem - 1
  /\ task' = [task EXCEPT ![f].pc = "attempt"]
  /\ UNCHANGED <<pc, ckey, cfut, ret, waitOrder, futures, futState,
                 futResult, cache>>

\* _execute_and_cleanup after fn returned result
SetResult(st, f) == IF st[f] = "pending" THEN [st EXCEPT ![f] = "result"] ELSE st
CleanupPop(fs, st, f, k) == IF st[f] # "pending" THEN [fs EXCEPT ![k] = 0] ELSE fs

Settle(f, result) ==
  /\ futState' = SetResult(futState, f)
  /\ futResult' = IF futState[f] = "pending"
                  THEN [futResult EXCEPT ![f] = result] ELSE futResult
  /\ futures' = CleanupPop(futures, futState', f, task[f].key)
  /\ task' = [task EXCEPT ![f].pc = "finished", ![f].result = result]

\* Slots given back on the path where the attempt succeeded (return result
\* inside the try of the retry loop).
ReleasedOnSuccess == 0
\* Slots given back after all retries failed (self.rate_limiter.release()).
ReleasedOnFailure == 1

\* One pass of the retry loop that fetches and extracts.
AttemptOk(f) ==
  /\ UNCHANGED <<varsRL, varsRedis, varsCache, varsPool, varsL1,
                 varsThrottler, varsScaler, varsJobs, varsDo, varsPs,
                 varsFlow>>
  /\ task[f].pc = "attempt"
  /\ Settle(f, OkResult(task[f].key))
  /\ sem' = sem + ReleasedOnSuccess
  /\ UNCHANGED <<pc, ckey, cfut, ret, waitOrder, cache>>

\* wait_time = 2 ** retry_count, in seconds
Backoff(retry_count) == 2 ^ retry_count

\* One pass that raises: back off and go round again.
AttemptRetry(f) ==
  /\ UNCHANGED <<varsRL, varsRedis, varsCache, varsPool, varsL1,
                 varsThrottler, varsScaler, varsJobs, varsDo, varsPs,
                 varsFlow>>
  /\ task[f].pc = "attempt"
  /\ task[f].retry + 1 <= MaxRetries
  /\ task' = [task EXCEPT ![f].retry = @ + 1,
                          ![f].wait = Backoff(task[f].retry + 1)]
  /\ UNCHANGED <<pc, ckey, cfut, ret, waitOrder, futures, futState,
                 futResult, sem, cache>>

\* The pass that raises with the retries used up.
AttemptExhausted(f, e) ==
  /\ UNCHANGED <<varsRL, varsRedis, varsCache, varsPool, varsL1,
                 varsThrottler, varsScaler, varsJobs, varsDo, varsPs,
                 varsFlow>>
  /\ task[f].pc = "attempt"
  /\ task[f].retry + 1 > MaxRetries
  /\ Settle(f, FailResult(task[f].key, e))
  /\ sem' = sem + ReleasedOnFailure
  /\ UNCHANGED <<pc, ckey, cfut, ret, waitOrder, cache>>

\* Time passes: every cache entry is one tick older.
OlderData(d) ==
  IF Has(d, "timestamp")
  THEN [d EXCEPT !.timestamp = IF @ < MaxAge THEN @ + 1 ELSE @]
  ELSE d
Older(e) == [e EXCEPT !.age = IF @ < MaxAge THEN @ + 1 ELSE @,
                      !.data = OlderData(@)]
Tick ==
  /\ UNCHANGED <<varsRL, varsRedis, varsCache, varsPool, varsL1,
                 varsThrottler, varsScaler, varsJobs, varsDo, varsPs,
                 varsFlow>>
  /\ cache # <<>>
  /\ cache' = [i \in 1..Len(cache) |-> Older(cache[i])]
  /\ cache' # cache
  /\ UNCHANGED <<pc, ckey, cfut, ret, waitOrder, futures, futState,
                 futResult, task, sem>>

Next ==
  \/ \E c \in Callers, k \in Keys : Request(c, k)
  \/ \E c \in Callers : TimeoutFire(c)
  \/ \E c \in Callers : TimeoutCleanup(c)
  \/ \E c \in Callers : Receive(c)
  \/ \E c \in Callers : Cancelled(c)
  \/ \E f \in Futs : Acquire(f)
  \/ \E f \in Futs : AttemptOk(f)
  \/ \E f \in Futs : AttemptRetry(f)
  \/ \E f \in Futs, e \in ErrMsgs : AttemptExhausted(f, e)
  \/ Tick

----------------------------------------------------------------------------
(* RateLimiter (rate_limiter.py) under the workers that call               *)
(* TaskEngine._perform_scrape.  Time is counted in ticks; Window ticks are *)
(* the limiter's 60 s, and two clock readings taken Window ticks apart are *)
(* more than 60 s apart.                                                   *)

NWorkers == 2        \* concurrent _perform_scrape calls
MaxPerMinute == 1    \* RateLimiter(max_requests_per_minute=...)
Window == 2          \* ticks in 60 s

Workers == 1..NWorkers
Ages == 0..(Window - 1)

InitRL ==
  /\ wpc = [w \in Workers |-> "idle"]
  /\ wretry = [w \in Workers |-> 0]
  /\ rlSem = MaxConcurrent
  /\ rlLock = 0
  /\ rlStamps = <<>>
  /\ fetchCnt = [a \in Ages |-> 0]
  /\ granted = 0

\* while self._timestamps and now - self._timestamps[0] > 60: popleft()
RECURSIVE Prune(_)
Prune(ts) ==
  IF ts # <<>> /\ Head(ts) >= Window THEN Prune(Tail(ts)) ELSE ts

\* The window test one request too late.
MustWaitOffByOne(ts) == Len(ts) > MaxPerMinute /\ Window - Head(ts) > 0

\* len(self._timestamps) >= max_requests_per_minute and wait_time > 0
MustWait(ts) == Len(ts) >= MaxPerMinute /\ Window - Head(ts) > 0

\* The semaphore kept while the caller sleeps.
WhileWaitingKept(n) == n

\* self._semaphore.release() before asyncio.sleep: the free slots afterwards.
WhileWaiting(n) == n + 1

\* acquire() returns to one more caller (counted up to one past the limit).
Granted(n) == IF n <= MaxConcurrent THEN n + 1 ELSE n

\* _perform_scrape is called and reaches RateLimiter.acquire.
RlCall(w) ==
  /\ UNCHANGED <<varsSF, varsRedis, varsCache, varsPool, varsL1,
                 varsThrottler, varsScaler, varsJobs, varsDo, varsPs,
                 varsFlow>>
  /\ wpc[w] = "idle"
  /\ wpc' = [wpc EXCEPT ![w] = "sem"]
  /\ wretry' = [wretry EXCEPT ![w] = 0]
  /\ UNCHANGED <<rlSem, rlLock, rlStamps, fetchCnt, granted>>

\* await self._semaphore.acquire()
RlSemAcquire(w) ==
  /\ UNCHANGED <<varsSF, varsRedis, varsCache, varsPool, varsL1,
                 varsThrottler, varsScaler, varsJobs, varsDo, varsPs,
                 varsFlow>>
  /\ wpc[w] = "sem"
  /\ rlSem > 0
  /\ rlSem' = rlSem - 1
  /\ wpc' = [wpc EXCEPT ![w] = "lock"]
  /\ UNCHANGED <<wretry, rlLock, rlStamps, fetchCnt, granted>>

\* async with self._lock: prune, then either append and return, or give the
\* slot back and sleep with the lock held.  Before the sleep the wait is
\* counted with increment_rate_limits(), the Prometheus counter
\* FACEBOOK_RATE_LIMITS of metrics.py; the throttler is not called.
RlEnter(w) ==
  /\ UNCHANGED <<varsSF, varsRedis, varsCache, varsPool, varsL1,
                 varsThrottler, varsScaler, varsJobs, varsDo, varsPs,
                 varsFlow>>
  /\ wpc[w] = "lock"
  /\ rlLock = 0
  /\ LET ts == Prune(rlStamps) IN
     IF MustWait(ts)
     THEN /\ rlStamps' = ts
          /\ rlSem' = WhileWaiting(rlSem)
          /\ rlLock' = w
          /\ wpc' = [wpc EXCEPT ![w] = "sleep"]
          /\ granted' = granted
     ELSE /\ rlStamps' = Append(ts, 0)
          /\ rlSem' = rlSem
          /\ rlLock' = 0
          /\ wpc' = [wpc EXCEPT ![w] = "attempt"]
          /\ granted' = Granted(granted)
  /\ UNCHANGED <<wretry, fetchCnt>>

\* asyncio.sleep(wait_time + 0.05) is over: the oldest time stamp has left
\* the window.
RlWake(w) ==
  /\ UNCHANGED <<varsSF, varsRedis, varsCache, varsPool, varsL1,
                 varsThrottler, varsScaler, varsJobs, varsDo, varsPs,
                 varsFlow>>
  /\ wpc[w] = "sleep"
  /\ Head(rlStamps) >= Window
  /\ wpc' = [wpc EXCEPT ![w] = "resem"]
  /\ UNCHANGED <<wretry, rlSem, rlLock, rlStamps, fetchCnt, granted>>

\* await self._semaphore.acquire() after the sleep, still inside the lock;
\* then now = time.time(), append, leave the lock, return.
RlReacquire(w) ==
  /\ UNCHANGED <<varsSF, varsRedis, varsCache, varsPool, varsL1,
                 varsThrottler, varsScaler, varsJobs, varsDo, varsPs,
                 varsFlow>>
  /\ wpc[w] = "resem"
  /\ rlSem > 0
  /\ rlSem' = rlSem - 1
  /\ rlStamps' = Append(rlStamps, 0)
  /\ rlLock' = 0
  /\ wpc' = [wpc EXCEPT ![w] = "attempt"]
  /\ granted' = Granted(granted)
  /\ UNCHANGED <<wretry, fetchCnt>>

\* A fetch_page_content call starts now (counted up to one past the limit).
CountFetch(fc) ==
  [fc EXCEPT ![0] = IF @ <= MaxPerMinute THEN @ + 1 ELSE @]

\* A pass of the retry loop that succeeds: return result.
RlFetchOk(w) ==
  /\ UNCHANGED <<varsSF, varsRedis, varsCache, varsPool, varsL1,
                 varsThrottler, varsScaler, varsJobs, varsDo, varsPs,
                 varsFlow>>
  /\ wpc[w] = "attempt"
  /\ fetchCnt' = CountFetch(fetchCnt)
  /\ rlSem' = rlSem + ReleasedOnSuccess
  /\ granted' = granted - ReleasedOnSuccess
  /\ wpc' = [wpc EXCEPT ![w] = "idle"]
  /\ UNCHANGED <<wretry, rlLock, rlStamps>>

\* A pass that raises: retry after the backoff, or give up and release.
RlFetchFail(w) ==
  /\ UNCHANGED <<varsSF, varsRedis, varsCache, varsPool, varsL1,
                 varsThrottler, varsScaler, varsJobs, varsDo, varsPs,
                 varsFlow>>
  /\ wpc[w] = "attempt"
  /\ fetchCnt' = CountFetch(fetchCnt)
  /\ wretry' = [wretry EXCEPT ![w] = @ + 1]
  /\ IF wretry[w] + 1 <= MaxRetries
     THEN UNCHANGED <<wpc, rlSem, granted>>
     ELSE /\ wpc' = [wpc EXCEPT ![w] = "idle"]
          /\ rlSem' = rlSem + ReleasedOnFailure
          /\ granted' = granted - ReleasedOnFailure
  /\ UNCHANGED <<rlLock, rlStamps>>

\* One tick passes.
RlTick ==
  /\ UNCHANGED <<varsSF, varsRedis, varsCache, varsPool, varsL1,
                 varsThrottler, varsScaler, varsJobs, varsDo, varsPs,
                 varsFlow>>
  /\ rlStamps' = [i \in 1..Len(rlStamps) |->
                    IF rlStamps[i] < Window THEN rlStamps[i] + 1 ELSE Window]
  /\ fetchCnt' = [a \in Ages |-> IF a = 0 THEN 0 ELSE fetchCnt[a - 1]]
  /\ UNCHANGED <<wpc, wretry, rlSem, rlLock, granted>>

NextRL ==
  \/ \E w \in Workers : RlCall(w)
  \/ \E w \in Workers : RlSemAcquire(w)
  \/ \E w \in Workers : RlEnter(w)
  \/ \E w \in Workers : RlWake(w)
  \/ \E w \in Workers : RlReacquire(w)
  \/ \E w \in Workers : RlFetchOk(w)
  \/ \E w \in Workers : RlFetchFail(w)
  \/ RlTick

----------------------------------------------------------------------------
(* RedisCoordination and the Redis branch of get_facebook_metadata.  Each  *)
(* request runs in a process; the lock value is the process id.  The       *)
(* lock's 30 s TTL cannot run out while a _renew_lock task for the key is  *)
(* alive (it renews every 10 s); once none is, the key may expire.         *)

NRequests == 2       \* requests in the cluster
NProcs == 2          \* processes
NRKeys == 1          \* distinct urls

Requests == 1..NRequests
Procs == 1..NProcs
RKeys == 1..NRKeys
ProcOf(r) == rproc[r]

\* What fn (_execute_single_flight_scrape) can return for url k.
ScrapeOutcomes(k) ==
  {OkResult(k), FailResult(k, "other"), ExceptionResult(k, "TimeoutError")}

\* json.dumps(result) / json.loads(message['data'])
Dumps(result) == [json |-> result]
Loads(data) == data.json

\* get_facebook_metadata: except TimeoutError
ServiceUnavailable(k) ==
  [url |-> k, error |-> "Service temporarily unavailable due to high load",
   success |-> FALSE, error_type |-> "service_unavailable"]

InitRedis ==
  /\ rpc = [r \in Requests |-> "idle"]
  /\ rproc = [r \in Requests |-> 0]
  /\ rkey = [r \in Requests |-> 0]
  /\ rres = [r \in Requests |-> NoRet]
  /\ rexc = [r \in Requests |-> "none"]
  /\ lock = [k \in RKeys |-> 0]
  /\ renew = [r \in Requests |-> FALSE]
  /\ subs = [p \in Procs |-> {}]
  /\ inbox = [p \in Procs |-> <<>>]

\* Requests, processes and urls are interchangeable: they are taken into use
\* in the order of their numbers.
InOrder(r, p, k) ==
  /\ IF r = 1 THEN TRUE ELSE rpc[r - 1] # "idle"
  /\ IF p = 1 THEN TRUE ELSE \E q \in Requests : rproc[q] = p - 1
  /\ IF k = 1 THEN TRUE ELSE \E q \in Requests : rkey[q] = k - 1

\* redis SET lock_key process_id NX EX lock_timeout: the stored value after
\* the command, given the one before.
SetNx(old, new) == IF old = 0 THEN new ELSE old

\* execute_with_coordination: the SET NX answers.
TryLock(r, p, k) ==
  /\ UNCHANGED <<varsSF, varsRL, varsCache, varsPool, varsL1, varsThrottler,
                 varsScaler, varsJobs, varsDo, varsPs, varsFlow>>
  /\ rpc[r] = "idle"
  /\ InOrder(r, p, k)
  /\ rproc' = [rproc EXCEPT ![r] = p]
  /\ rkey' = [rkey EXCEPT ![r] = k]
  /\ lock' = [lock EXCEPT ![k] = SetNx(lock[k], p)]
  /\ IF lock[k] = 0
     THEN \* _execute_as_leader: the renewal task is created
          /\ rpc' = [rpc EXCEPT ![r] = "leader"]
          /\ renew' = [renew EXCEPT ![r] = TRUE]
     ELSE /\ rpc' = [rpc EXCEPT ![r] = "subscribing"]
          /\ renew' = renew
  /\ UNCHANGED <<rres, rexc, subs, inbox>>

\* execute_with_coordination: the SET raises; fn is run directly.
LockError(r, p, k) ==
  /\ UNCHANGED <<varsSF, varsRL, varsCache, varsPool, varsL1, varsThrottler,
                 varsScaler, varsJobs, varsDo, varsPs, varsFlow>>
  /\ rpc[r] = "idle"
  /\ InOrder(r, p, k)
  /\ rproc' = [rproc EXCEPT ![r] = p]
  /\ rkey' = [rkey EXCEPT ![r] = k]
  /\ rpc' = [rpc EXCEPT ![r] = "direct"]
  /\ UNCHANGED <<rres, rexc, lock, renew, subs, inbox>>

\* ... and fn returns.
DirectDone(r) ==
  /\ UNCHANGED <<varsSF, varsRL, varsCache, varsPool, varsL1, varsThrottler,
                 varsScaler, varsJobs, varsDo, varsPs, varsFlow>>
  /\ rpc[r] = "direct"
  /\ \E res \in ScrapeOutcomes(rkey[r]) : rres' = [rres EXCEPT ![r] = res]
  /\ rpc' = [rpc EXCEPT ![r] = "done"]
  /\ UNCHANGED <<rproc, rkey, rexc, lock, renew, subs, inbox>>

\* _renew_lock: expire() raises or reports the key missing; the loop ends.
RenewStops(r) ==
  /\ UNCHANGED <<varsSF, varsRL, varsCache, varsPool, varsL1, varsThrottler,
                 varsScaler, varsJobs, varsDo, varsPs, varsFlow>>
  /\ renew[r]
  /\ renew' = [renew EXCEPT ![r] = FALSE]
  /\ UNCHANGED <<rpc, rproc, rkey, rres, rexc, lock, subs, inbox>>

\* The TTL of a lock key nobody renews runs out.
Expire(k) ==
  /\ UNCHANGED <<varsSF, varsRL, varsCache, varsPool, varsL1, varsThrottler,
                 varsScaler, varsJobs, varsDo, varsPs, varsFlow>>
  /\ lock[k] # 0
  /\ \A r \in Requests : ~(renew[r] /\ rkey[r] = k)
  /\ lock' = [lock EXCEPT ![k] = 0]
  /\ UNCHANGED <<rpc, rproc, rkey, rres, rexc, renew, subs, inbox>>

\* _execute_as_leader: result = await fn(...)
LeaderScraped(r) ==
  /\ UNCHANGED <<varsSF, varsRL, varsCache, varsPool, varsL1, varsThrottler,
                 varsScaler, varsJobs, varsDo, varsPs, varsFlow>>
  /\ rpc[r] = "leader"
  /\ \E res \in ScrapeOutcomes(rkey[r]) : rres' = [rres EXCEPT ![r] = res]
  /\ rpc' = [rpc EXCEPT ![r] = "publish"]
  /\ UNCHANGED <<rproc, rkey, rexc, lock, renew, subs, inbox>>

\* redis PUBLISH: the message reaches the connections subscribed right now.
Deliver(box, k, data) ==
  [p \in Procs |-> IF k \in subs[p]
                   THEN Append(box[p], [channel |-> k, data |-> data])
                   ELSE box[p]]

\* _execute_as_leader: publish(channel_key, json.dumps(result))
Publish(r) ==
  /\ UNCHANGED <<varsSF, varsRL, varsCache, varsPool, varsL1, varsThrottler,
                 varsScaler, varsJobs, varsDo, varsPs, varsFlow>>
  /\ rpc[r] = "publish"
  /\ inbox' = Deliver(inbox, rkey[r], Dumps(rres[r]))
  /\ rpc' = [rpc EXCEPT ![r] = "cleanup"]
  /\ UNCHANGED <<rproc, rkey, rres, rexc, lock, renew, subs>>

\* redis DEL lock_key as _execute_as_leader issues it: the stored value after.
DeleteLock(old, me) == 0

\* _execute_as_leader, finally: cancel the renewal, delete the lock, return.
LeaderCleanup(r) ==
  /\ UNCHANGED <<varsSF, varsRL, varsCache, varsPool, varsL1, varsThrottler,
                 varsScaler, varsJobs, varsDo, varsPs, varsFlow>>
  /\ rpc[r] = "cleanup"
  /\ renew' = [renew EXCEPT ![r] = FALSE]
  /\ lock' = [lock EXCEPT ![rkey[r]] = DeleteLock(@, ProcOf(r))]
  /\ rpc' = [rpc EXCEPT ![r] = "done"]
  /\ UNCHANGED <<rproc, rkey, rres, rexc, subs, inbox>>

\* _wait_as_follower: subscribe(channel_key)
Subscribe(r) ==
  /\ UNCHANGED <<varsSF, varsRL, varsCache, varsPool, varsL1, varsThrottler,
                 varsScaler, varsJobs, varsDo, varsPs, varsFlow>>
  /\ rpc[r] = "subscribing"
  /\ subs' = [subs EXCEPT ![ProcOf(r)] = @ \cup {rkey[r]}]
  /\ rpc' = [rpc EXCEPT ![r] = "listening"]
  /\ UNCHANGED <<rproc, rkey, rres, rexc, lock, renew, inbox>>

\* _wait_as_follower: subscribe raises.
SubscribeError(r) ==
  /\ UNCHANGED <<varsSF, varsRL, varsCache, varsPool, varsL1, varsThrottler,
                 varsScaler, varsJobs, varsDo, varsPs, varsFlow>>
  /\ rpc[r] = "subscribing"
  /\ rexc' = [rexc EXCEPT ![r] = "Exception"]
  /\ rpc' = [rpc EXCEPT ![r] = "raised"]
  /\ UNCHANGED <<rproc, rkey, rres, lock, renew, subs, inbox>>

\* _wait_as_follower, finally: unsubscribe(channel_key)
Unsubscribe(r) == [subs EXCEPT ![ProcOf(r)] = @ \ {rkey[r]}]

\* _wait_as_follower: get_message returns the next message of the process's
\* pubsub; it is decoded and returned.
GetMessage(r) ==
  /\ UNCHANGED <<varsSF, varsRL, varsCache, varsPool, varsL1, varsThrottler,
                 varsScaler, varsJobs, varsDo, varsPs, varsFlow>>
  /\ rpc[r] = "listening"
  /\ inbox[ProcOf(r)] # <<>>
  /\ rres' = [rres EXCEPT ![r] = Loads(Head(inbox[ProcOf(r)]).data)]
  /\ inbox' = [inbox EXCEPT ![ProcOf(r)] = Tail(@)]
  /\ subs' = Unsubscribe(r)
  /\ rpc' = [rpc EXCEPT ![r] = "done"]
  /\ UNCHANGED <<rproc, rkey, rexc, lock, renew>>

\* _wait_as_follower: get_message raises.
MessageError(r) ==
  /\ UNCHANGED <<varsSF, varsRL, varsCache, varsPool, varsL1, varsThrottler,
                 varsScaler, varsJobs, varsDo, varsPs, varsFlow>>
  /\ rpc[r] = "listening"
  /\ rexc' = [rexc EXCEPT ![r] = "Exception"]
  /\ subs' = Unsubscribe(r)
  /\ rpc' = [rpc EXCEPT ![r] = "raised"]
  /\ UNCHANGED <<rproc, rkey, rres, lock, renew, inbox>>

\* _wait_as_follower: the loop condition finds the 45 s over (a message that
\* came in after the last get_message stays unread): raise TimeoutError.
FollowerTimeout(r) ==
  /\ UNCHANGED <<varsSF, varsRL, varsCache, varsPool, varsL1, varsThrottler,
                 varsScaler, varsJobs, varsDo, varsPs, varsFlow>>
  /\ rpc[r] = "listening"
  /\ rexc' = [rexc EXCEPT ![r] = "TimeoutError"]
  /\ subs' = Unsubscribe(r)
  /\ rpc' = [rpc EXCEPT ![r] = "raised"]
  /\ UNCHANGED <<rproc, rkey, rres, lock, renew, inbox>>

\* Every exception of the coordination taken by "except TimeoutError".
OnCoordinationErrorAlwaysFailFast(exc) == "fail_fast"

\* Every exception of the coordination taken by "except Exception".
OnCoordinationErrorAlwaysFallback(exc) == "fallback"

\* get_facebook_metadata: which except clause takes what the coordination
\* raised.
OnCoordinationError(exc) ==
  IF exc = "TimeoutError" THEN "fail_fast" ELSE "fallback"

\* get_facebook_metadata: the except clauses around execute_with_coordination
HandleRaised(r) ==
  /\ UNCHANGED <<varsSF, varsRL, varsCache, varsPool, varsL1, varsThrottler,
                 varsScaler, varsJobs, varsDo, varsPs, varsFlow>>
  /\ rpc[r] = "raised"
  /\ IF OnCoordinationError(rexc[r]) = "fail_fast"
     THEN /\ rres' = [rres EXCEPT ![r] = ServiceUnavailable(rkey[r])]
          /\ rpc' = [rpc EXCEPT ![r] = "done"]
     ELSE /\ rres' = rres
          /\ rpc' = [rpc EXCEPT ![r] = "fallback"]
  /\ UNCHANGED <<rproc, rkey, rexc, lock, renew, subs, inbox>>

\* get_facebook_metadata: the in-process single-flight after a coordination
\* error returns.
FallbackDone(r) ==
  /\ UNCHANGED <<varsSF, varsRL, varsCache, varsPool, varsL1, varsThrottler,
                 varsScaler, varsJobs, varsDo, varsPs, varsFlow>>
  /\ rpc[r] = "fallback"
  /\ \E res \in ScrapeOutcomes(rkey[r]) : rres' = [rres EXCEPT ![r] = res]
  /\ rpc' = [rpc EXCEPT ![r] = "done"]
  /\ UNCHANGED <<rproc, rkey, rexc, lock, renew, subs, inbox>>

NextRedis ==
  \/ \E r \in Requests, p \in Procs, k \in RKeys : TryLock(r, p, k)
  \/ \E r \in Requests, p \in Procs, k \in RKeys : LockError(r, p, k)
  \/ \E r \in Requests : DirectDone(r)
  \/ \E r \in Requests : RenewStops(r)
  \/ \E k \in RKeys : Expire(k)
  \/ \E r \in Requests : LeaderScraped(r)
  \/ \E r \in Requests : Publish(r)
  \/ \E r \in Requests : LeaderCleanup(r)
  \/ \E r \in Requests : Subscribe(r)
  \/ \E r \in Requests : SubscribeError(r)
  \/ \E r \in Requests : GetMessage(r)
  \/ \E r \in Requests : MessageError(r)
  \/ \E r \in Requests : FollowerTimeout(r)
  \/ \E r \in Requests : HandleRaised(r)
  \/ \E r \in Requests : FallbackDone(r)

----------------------------------------------------------------------------
(* FacebookCacheManager over two tiers: every engine (process) has its own *)
(* SharedInMemoryCache, all share the keys of one RedisCache.              *)

NEngines == 2        \* TaskEngines (processes) on one Redis
NCKeys == 1          \* distinct urls

Engines == 1..NEngines
CKeys == 1..NCKeys

InitCache ==
  /\ l1 = [e \in Engines |-> <<>>]
  /\ l2 = [k \in CKeys |-> None]
  /\ served = None

\* RedisCache.set: SET key json.dumps(data) EX ttl
RedisSet(r, k, data, ttl) ==
  [r EXCEPT ![k] = [data |-> Dumps(data), age |-> 0, ttl |-> ttl]]

\* RedisCache.get: json.loads(data) if data else None
RedisGet(r, k) == IF r[k] = None THEN None ELSE Loads(r[k].data)

\* FacebookCacheManager.store_result
CmStoreResult(e, k) ==
  /\ UNCHANGED <<varsSF, varsRL, varsRedis, varsPool, varsL1, varsThrottler,
                 varsScaler, varsJobs, varsDo, varsPs, varsFlow>>
  /\ l1' = [l1 EXCEPT ![e] = CacheSet(@, k, OkResult(k), CacheTtl)]
  /\ l2' = RedisSet(l2, k, OkResult(k), CacheTtl)
  /\ served' = None

\* FacebookCacheManager.store_negative_result
CmStoreNegative(e, k) ==
  /\ UNCHANGED <<varsSF, varsRL, varsRedis, varsPool, varsL1, varsThrottler,
                 varsScaler, varsJobs, varsDo, varsPs, varsFlow>>
  /\ LET negative == NegativeResult([type |-> "unknown", message |-> "other"])
     IN /\ l1' = [l1 EXCEPT ![e] = CacheSet(@, k, negative, NegativeTtl)]
        /\ l2' = RedisSet(l2, k, negative, NegativeTtl)
  /\ served' = None

\* The ttl under which get_with_negative_cache puts a Redis hit into L1.
PromoteTtl(result) == CacheTtl

\* FacebookCacheManager.get_with_negative_cache
CmLookup(e, k) ==
  /\ UNCHANGED <<varsSF, varsRL, varsRedis, varsPool, varsL1, varsThrottler,
                 varsScaler, varsJobs, varsDo, varsPs, varsFlow>>
  /\ LET g == CacheGet(l1[e], k)
         r == RedisGet(l2, k)
     IN IF g.val # None
        THEN /\ served' = g.val
             /\ l1' = [l1 EXCEPT ![e] = g.cache]
        ELSE IF r # None
        THEN /\ served' = r
             /\ l1' = [l1 EXCEPT ![e] = CacheSet(g.cache, k, r, PromoteTtl(r))]
        ELSE /\ served' = None
             /\ l1' = [l1 EXCEPT ![e] = g.cache]
  /\ UNCHANGED l2

\* Redis drops a key ttl after it was set.
RedisOlder(x) ==
  IF x = None THEN None
  ELSE IF x.age + 1 >= x.ttl THEN None
  ELSE [x EXCEPT !.age = @ + 1, !.data = Dumps(OlderData(Loads(@)))]

\* One tick passes in both tiers.
CmTick ==
  /\ UNCHANGED <<varsSF, varsRL, varsRedis, varsPool, varsL1, varsThrottler,
                 varsScaler, varsJobs, varsDo, varsPs, varsFlow>>
  /\ l1' = [e \in Engines |-> [i \in 1..Len(l1[e]) |-> Older(l1[e][i])]]
  /\ l2' = [k \in CKeys |-> RedisOlder(l2[k])]
  /\ served' = None

NextCache ==
  \/ \E e \in Engines, k \in CKeys : CmStoreResult(e, k)
  \/ \E e \in Engines, k \in CKeys : CmStoreNegative(e, k)
  \/ \E e \in Engines, k \in CKeys : CmLookup(e, k)
  \/ CmTick

----------------------------------------------------------------------------
(* BrowserPool (browser_pool.py) under the scrapes that borrow pages in    *)
(* TaskEngine._perform_scrape.  A step runs from one point where the       *)
(* coroutine is suspended (a Playwright call, a lock it has to wait for)   *)
(* to the next.  Contexts are numbered in the order of their creation.     *)

NScrapers == 3          \* concurrent _perform_scrape attempts
MaxContexts == 1        \* BrowserPool(max_contexts=...)
MaxPagesPerContext == 1 \* BrowserPool(max_pages_per_context=...)
ReuseLimit == 3         \* BrowserPool(context_reuse_limit=...)

Scrapers == 1..NScrapers
\* The pool is followed until it has created one context more than
\* initialize() did.
CtxIds == 1..(MaxContexts + 1)
NoCtx == [ctx |-> 0, uses |-> 0]

\* _create_pages(context, count) on a context without pages
NewPages(c, count) == [n \in 1..count |-> [ctx |-> c, n |-> n]]

\* initialize(): max_contexts contexts, each with its pages, all queued.
InitPool ==
  /\ ppc = [s \in Scrapers |-> "idle"]
  /\ pctx = [s \in Scrapers |-> NoCtx]
  /\ held = [s \in Scrapers |-> None]
  /\ pq = [c \in 1..MaxContexts |-> [ctx |-> c, uses |-> 0]]
  /\ avail = [c \in CtxIds |->
               IF c <= MaxContexts THEN NewPages(c, MaxPagesPerContext)
               ELSE <<>>]
  /\ made = [c \in CtxIds |-> IF c <= MaxContexts THEN MaxPagesPerContext ELSE 0]
  /\ live = 1..MaxContexts
  /\ created = MaxContexts
  /\ loans = [c \in CtxIds |-> 0]
  /\ plock = 0
  /\ active_pages = MaxContexts * MaxPagesPerContext
  /\ broken = {}

\* pages.pop(): the list afterwards.
AfterPopKeepsPage(l) == l

AfterPop(l) == SubSeq(l, 1, Len(l) - 1)

\* if use_count >= self.context_reuse_limit
NeverRotate(u) == FALSE

MustRotate(u) == u >= ReuseLimit

CountLoan(n) == IF n <= ReuseLimit THEN n + 1 ELSE n

\* get_page from "pages = self._context_pages_map.get(context, [])" on, for
\* scraper s with context c and use count u, queue q, page lists av and
\* gauge ap.
HandOut(s, q, av, c, u, ap) ==
  IF av[c] = <<>>
  THEN \* await self._create_pages(context, 1)
       /\ ppc' = [ppc EXCEPT ![s] = "paging"]
       /\ pctx' = [pctx EXCEPT ![s] = [ctx |-> c, uses |-> u]]
       /\ pq' = q
       /\ avail' = av
       /\ active_pages' = ap
       /\ UNCHANGED <<held, loans>>
  ELSE /\ held' = [held EXCEPT ![s] = av[c][Len(av[c])]]
       /\ active_pages' = ap - 1
       /\ avail' = [av EXCEPT ![c] = AfterPop(@)]
       /\ pq' = Append(q, [ctx |-> c, uses |-> u])
       /\ loans' = [loans EXCEPT ![c] = CountLoan(@)]
       /\ ppc' = [ppc EXCEPT ![s] = "using"]
       /\ pctx' = [pctx EXCEPT ![s] = NoCtx]

\* get_page from "context, use_count = await self._context_queue.get()" on,
\* the queue q being non-empty.
TakeContext(s, q, av, ap) ==
  LET c == Head(q).ctx
      u == Head(q).uses + 1
  IN IF MustRotate(u)
     THEN \* await context.close() ...
          /\ ppc' = [ppc EXCEPT ![s] = "rotating"]
          /\ pctx' = [pctx EXCEPT ![s] = [ctx |-> c, uses |-> u]]
          /\ pq' = Tail(q)
          /\ avail' = av
          /\ active_pages' = ap
          /\ UNCHANGED <<held, loans>>
     ELSE HandOut(s, Tail(q), av, c, u, ap)

\* get_page is called (an attempt of _perform_scrape begins).  Scrapers
\* that hold nothing are interchangeable: the one with the least number
\* calls.
GetPage(s) ==
  /\ UNCHANGED <<varsSF, varsRL, varsRedis, varsCache, varsL1, varsThrottler,
                 varsScaler, varsJobs, varsDo, varsPs, varsFlow>>
  /\ ppc[s] = "idle"
  /\ \A t \in Scrapers : t < s => ppc[t] # "idle"
  /\ IF pq # <<>>
     THEN TakeContext(s, pq, avail, active_pages) /\ plock' = plock
     ELSE /\ IF plock = 0
             THEN ppc' = [ppc EXCEPT ![s] = "creating"] /\ plock' = s
             ELSE ppc' = [ppc EXCEPT ![s] = "waitlock"] /\ plock' = plock
          /\ UNCHANGED <<pctx, held, pq, avail, loans, active_pages>>
  /\ UNCHANGED <<made, live, created, broken>>

\* async with self._context_lock: the lock is free now; the queue is looked
\* at again.
LockGranted(s) ==
  /\ UNCHANGED <<varsSF, varsRL, varsRedis, varsCache, varsL1, varsThrottler,
                 varsScaler, varsJobs, varsDo, varsPs, varsFlow>>
  /\ ppc[s] = "waitlock"
  /\ plock = 0
  /\ IF pq # <<>>
     THEN TakeContext(s, pq, avail, active_pages) /\ plock' = 0
     ELSE /\ ppc' = [ppc EXCEPT ![s] = "creating"]
          /\ plock' = s
          /\ UNCHANGED <<pctx, held, pq, avail, loans, active_pages>>
  /\ UNCHANGED <<made, live, created, broken>>

\* _create_context and _create_pages have returned: the context is queued,
\* the lock released, and the head of the queue taken.
CreateDone(s) ==
  /\ UNCHANGED <<varsSF, varsRL, varsRedis, varsCache, varsL1, varsThrottler,
                 varsScaler, varsJobs, varsDo, varsPs, varsFlow>>
  /\ ppc[s] = "creating"
  /\ created + 1 \in CtxIds
  /\ LET c == created + 1
         av == [avail EXCEPT ![c] = NewPages(c, MaxPagesPerContext)]
     IN /\ created' = c
        /\ live' = live \cup {c}
        /\ made' = [made EXCEPT ![c] = MaxPagesPerContext]
        /\ plock' = 0
        /\ TakeContext(s, Append(pq, [ctx |-> c, uses |-> 0]), av,
                       active_pages + MaxPagesPerContext)
  /\ UNCHANGED broken

\* The context is closed and a new one with its pages created: use_count = 1
RotateDone(s) ==
  /\ UNCHANGED <<varsSF, varsRL, varsRedis, varsCache, varsL1, varsThrottler,
                 varsScaler, varsJobs, varsDo, varsPs, varsFlow>>
  /\ ppc[s] = "rotating"
  /\ created + 1 \in CtxIds
  /\ LET c == created + 1
         av == [avail EXCEPT ![c] = NewPages(c, MaxPagesPerContext)]
     IN /\ created' = c
        /\ live' = (live \ {pctx[s].ctx}) \cup {c}
        /\ made' = [made EXCEPT ![c] = MaxPagesPerContext]
        /\ HandOut(s, pq, av, c, 1, active_pages + MaxPagesPerContext)
  /\ UNCHANGED <<plock, broken>>

\* _create_pages(context, 1) has returned: the list has one more page.
PageCreated(s) ==
  /\ UNCHANGED <<varsSF, varsRL, varsRedis, varsCache, varsL1, varsThrottler,
                 varsScaler, varsJobs, varsDo, varsPs, varsFlow>>
  /\ ppc[s] = "paging"
  /\ LET c == pctx[s].ctx
         n == made[c] + 1
         av == [avail EXCEPT ![c] = Append(@, [ctx |-> c, n |-> n])]
     IN /\ made' = [made EXCEPT ![c] = n]
        /\ HandOut(s, pq, av, c, pctx[s].uses, active_pages + 1)
  /\ UNCHANGED <<live, created, plock, broken>>

\* The page whose navigation to about:blank can fail.
FaultyPage == [ctx |-> 1, n |-> 1]

GotoFails(s) == IF held[s] = FaultyPage THEN BOOLEAN ELSE {FALSE}

\* The attempt has ended (result or exception) and, in its finally,
\* return_page(page, context) navigates the page to about:blank, passes over
\* a failure of that, and appends the page to the list of its context.
ReturnPage(s) ==
  /\ UNCHANGED <<varsSF, varsRL, varsRedis, varsCache, varsL1, varsThrottler,
                 varsScaler, varsJobs, varsDo, varsPs, varsFlow>>
  /\ ppc[s] = "using"
  /\ avail' = [avail EXCEPT ![held[s].ctx] = Append(@, held[s])]
  /\ held' = [held EXCEPT ![s] = None]
  /\ ppc' = [ppc EXCEPT ![s] = "idle"]
  /\ active_pages' = active_pages + 1
  /\ \E goto_fails \in GotoFails(s) :
       broken' = IF goto_fails THEN broken \cup {held[s]} ELSE broken
  /\ UNCHANGED <<pctx, pq, made, live, created, loans, plock>>

NextPool ==
  \/ \E s \in Scrapers : GetPage(s)
  \/ \E s \in Scrapers : LockGranted(s)
  \/ \E s \in Scrapers : CreateDone(s)
  \/ \E s \in Scrapers : RotateDone(s)
  \/ \E s \in Scrapers : PageCreated(s)
  \/ \E s \in Scrapers : ReturnPage(s)

----------------------------------------------------------------------------
(* One SharedInMemoryCache with its counters, under any sequence of set    *)
(* and get calls.                                                          *)

MaxCount == 2        \* the calls are followed until a counter reaches this

Ttls == {NegativeTtl, CacheTtl}

InitL1 ==
  /\ mc = <<>>
  /\ stat = [hits |-> 0, misses |-> 0, expiry_count |-> 0, eviction_count |-> 0]
  /\ lastOp = [op |-> "init", key |-> 0, val |-> None, metric |-> "none"]

Counting ==
  /\ stat.hits < MaxCount /\ stat.misses < MaxCount
  /\ stat.expiry_count < MaxCount /\ stat.eviction_count < MaxCount

\* set() without the eviction counter.
StatAfterSetNoCount(c, st) == st

\* set(): the counters afterwards.
StatAfterSet(c, st) ==
  IF Len(c) >= MaxSize THEN [st EXCEPT !.eviction_count = @ + 1] ELSE st

\* get(): the counters afterwards.
StatAfterGet(c, k, st) ==
  LET i == IndexOf(c, k) IN
  IF i = 0 THEN [st EXCEPT !.misses = @ + 1]
  ELSE IF c[i].age > c[i].ttl THEN [st EXCEPT !.expiry_count = @ + 1]
  ELSE [st EXCEPT !.hits = @ + 1]

\* get(): the metric it emits.
MetricOfGet(c, k) ==
  LET i == IndexOf(c, k) IN
  IF i = 0 THEN "cache_miss:not_found"
  ELSE IF c[i].age > c[i].ttl THEN "cache_ttl_expiry"
  ELSE "cache_hit"

L1Set(k, ttl) ==
  /\ UNCHANGED <<varsSF, varsRL, varsRedis, varsCache, varsPool,
                 varsThrottler, varsScaler, varsJobs, varsDo, varsPs,
                 varsFlow>>
  /\ Counting
  /\ mc' = CacheSet(mc, k, OkResult(k), ttl)
  /\ stat' = StatAfterSet(mc, stat)
  /\ lastOp' = [op |-> "set", key |-> k, val |-> None,
                 metric |-> IF Len(mc) >= MaxSize THEN "cache_eviction"
                            ELSE "none"]

L1Get(k) ==
  /\ UNCHANGED <<varsSF, varsRL, varsRedis, varsCache, varsPool,
                 varsThrottler, varsScaler, varsJobs, varsDo, varsPs,
                 varsFlow>>
  /\ Counting
  /\ mc' = CacheGet(mc, k).cache
  /\ stat' = StatAfterGet(mc, k, stat)
  /\ lastOp' = [op |-> "get", key |-> k, val |-> CacheGet(mc, k).val,
                 metric |-> MetricOfGet(mc, k)]

L1Tick ==
  /\ UNCHANGED <<varsSF, varsRL, varsRedis, varsCache, varsPool,
                 varsThrottler, varsScaler, varsJobs, varsDo, varsPs,
                 varsFlow>>
  /\ mc' = [i \in 1..Len(mc) |-> Older(mc[i])]
  /\ mc' # mc
  /\ lastOp' = [op |-> "tick", key |-> 0, val |-> None, metric |-> "none"]
  /\ UNCHANGED stat

NextL1 ==
  \/ \E k \in Keys, ttl \in Ttls : L1Set(k, ttl)
  \/ \E k \in Keys : L1Get(k)
  \/ L1Tick

----------------------------------------------------------------------------
(* AdaptiveThrottler.record_rate_limit_event with the AnomalyDetector it   *)
(* consults.  Delays are counted in 1/64 of base_delay (0.05 s) and the    *)
(* multiplier in 1/64, which keeps every product of 1.5 below the ceiling  *)
(* of 10.0 an integer: 64, 96, 144, 216, 324, 486, then 640.               *)

MaxEvents == 11          \* rate-limit events followed
MaxCacheEvents == 1      \* cache lookups followed
RateLimitWindow == 1     \* AnomalyDetector.rate_limit_window: 60 s, one tick
BaseDelay == 64          \* base_delay = 0.05 s
MaxDelay == 3840         \* max_delay = 3.0 s = 60 * base_delay
MultiplierUnit == 64     \* throttle_multiplier = 1.0
MultiplierCap == 640     \* min(..., 10.0)
EventWindowSize == 20    \* AdaptiveThrottler.event_window_size
ZWindowSize == 50        \* ZScoreDetector(window_size=50)
ZMinValues == 10         \* ZScoreDetector.update: len(values) < 10
ZThresholdSq == 4        \* ZScoreDetector threshold 2.0, squared
HighFrequency == 10      \* rate_limits_in_window > 10

InitThrottler ==
  /\ current_delay = BaseDelay
  /\ throttle_multiplier = MultiplierUnit
  /\ rate_limit_events = 0
  /\ rate_limit_counts = <<>>
  /\ rl_values = <<>>
  /\ cache_miss_events = <<>>
  /\ throttle_reason = "none"

Min2(a, b) == IF a <= b THEN a ELSE b

RECURSIVE SeqSum(_)
SeqSum(q) == IF q = <<>> THEN 0 ELSE Head(q) + SeqSum(Tail(q))

RECURSIVE SeqSumSq(_)
SeqSumSq(q) == IF q = <<>> THEN 0 ELSE Head(q) * Head(q) + SeqSumSq(Tail(q))

\* deque(maxlen=window_size).append
DequeAppend(q, v) ==
  IF Len(q) >= ZWindowSize THEN Append(Tail(q), v) ELSE Append(q, v)

\* ZScoreDetector.update on the values after the append: is_anomaly.
\* z = |new - mean| / stdev > threshold, with the sample stdev, is
\* (n*new - S)^2 * (n-1) > threshold^2 * n * (n*Q - S^2).
IsAnomaly(values) ==
  LET n == Len(values)
      new == values[n]
      S == SeqSum(values)
      Q == SeqSumSq(values)
      d == n * Q - S * S
  IN IF n < ZMinValues THEN FALSE
     ELSE IF d = 0 THEN FALSE
     ELSE (n * new - S) * (n * new - S) * (n - 1) > ZThresholdSq * n * d

\* add_rate_limit_event: the deque after the append and the cut-off.
RECURSIVE DropOld(_)
DropOld(q) ==
  IF q # <<>> /\ Head(q) > RateLimitWindow THEN DropOld(Tail(q)) ELSE q

\* record_rate_limit_event: the condition of the throttling branch.
MustThrottle(result) ==
  result.rate_limit_spike \/ result.high_rate_limit_frequency

\* _apply_throttle(suggested_delay, reason)
ApplyThrottle(suggested_delay, reason) ==
  /\ current_delay' = suggested_delay
  /\ throttle_reason' = reason

RecordRateLimitEvent ==
  /\ UNCHANGED <<varsSF, varsRL, varsRedis, varsCache, varsPool, varsL1,
                 varsScaler, varsJobs, varsDo, varsPs, varsFlow>>
  /\ rate_limit_events < MaxEvents
  /\ rate_limit_events' = Min2(rate_limit_events + 1, EventWindowSize)
  /\ LET counts == DropOld(Append(rate_limit_counts, 0))
         in_window == Len(counts)
         values == DequeAppend(rl_values, in_window)
         result == [rate_limit_spike |-> IsAnomaly(values),
                    high_rate_limit_frequency |-> in_window > HighFrequency]
         mult == Min2((throttle_multiplier * 3) \div 2, MultiplierCap)
     IN /\ rate_limit_counts' = counts
        /\ rl_values' = values
        /\ IF MustThrottle(result)
           THEN /\ throttle_multiplier' = mult
                /\ ApplyThrottle(
                     Min2((BaseDelay * mult) \div MultiplierUnit, MaxDelay),
                     "rate_limit")
           ELSE UNCHANGED <<throttle_multiplier, current_delay,
                            throttle_reason>>
  /\ UNCHANGED cache_miss_events

\* 1024 * ln(num / den) for 1 <= num / den < 2, by the series
\* ln(x) = 2 * (y + y^3 / 3 + y^5 / 5) with y = (x - 1) / (x + 1)
Ln1024(num, den) ==
  LET y == (1024 * (num - den)) \div (num + den)
      y3 == (y * y * y) \div (1024 * 1024)
      y5 == (y3 * y * y) \div (1024 * 1024)
  IN 2 * (y + y3 \div 3 + y5 \div 5)

\* _trim_window(data_list, window_size)
TrimWindow(q, window_size) ==
  IF Len(q) > window_size
  THEN SubSeq(q, Len(q) - window_size + 1, Len(q))
  ELSE q

\* _get_cache_miss_rate as the pair miss_count, len(cache_miss_events)
MissCount(q) == Cardinality({i \in 1..Len(q) : q[i]})

\* miss_rate > cache_miss_threshold, the threshold being 0.6 = 3 / 5
MissRateHigh(q) == 5 * MissCount(q) > 3 * Len(q)

\* min(base_delay * (1 + log(max(1, miss_rate / cache_miss_threshold))),
\* max_delay), rounded to the unit of the delays
CacheMissDelay(q) ==
  LET ln == Ln1024(5 * MissCount(q), 3 * Len(q))
  IN Min2(BaseDelay + (BaseDelay * ln + 512) \div 1024, MaxDelay)

\* update_cache_stats(cache_hit)
UpdateCacheStats(cache_hit) ==
  /\ UNCHANGED <<varsSF, varsRL, varsRedis, varsCache, varsPool, varsL1,
                 varsScaler, varsJobs, varsDo, varsPs, varsFlow>>
  /\ Len(cache_miss_events) < MaxCacheEvents
  /\ LET events == TrimWindow(Append(cache_miss_events, ~cache_hit),
                              EventWindowSize)
     IN /\ cache_miss_events' = events
        /\ IF MissRateHigh(events)
           THEN ApplyThrottle(CacheMissDelay(events), "cache_miss_rate")
           ELSE UNCHANGED <<current_delay, throttle_reason>>
  /\ UNCHANGED <<throttle_multiplier, rate_limit_events, rate_limit_counts,
                 rl_values>>

\* update_memory_usage(memory_mb) with memory_mb above the threshold of the
\* throttler (800 MB) and, when memory_high, above that of the detector
\* (1024 MB); the z-score detector of the memory values is left out.
UpdateMemoryUsage(memory_high) ==
  /\ UNCHANGED <<varsSF, varsRL, varsRedis, varsCache, varsPool, varsL1,
                 varsScaler, varsJobs, varsDo, varsPs, varsFlow>>
  /\ IF memory_high
     THEN ApplyThrottle(Min2(BaseDelay * 2, MaxDelay), "memory_high")
     ELSE UNCHANGED <<current_delay, throttle_reason>>
  /\ current_delay' # current_delay \/ throttle_reason' # throttle_reason
  /\ UNCHANGED <<throttle_multiplier, rate_limit_events, rate_limit_counts,
                 rl_values, cache_miss_events>>

\* Time passes: every recorded event is one tick older.
ThrottlerTick ==
  /\ UNCHANGED <<varsSF, varsRL, varsRedis, varsCache, varsPool, varsL1,
                 varsScaler, varsJobs, varsDo, varsPs, varsFlow>>
  /\ rate_limit_counts' =
       [i \in 1..Len(rate_limit_counts) |->
          Min2(rate_limit_counts[i] + 1, RateLimitWindow + 1)]
  /\ rate_limit_counts' # rate_limit_counts
  /\ UNCHANGED <<current_delay, throttle_multiplier, rate_limit_events,
                 rl_values, cache_miss_events, throttle_reason>>

NextThrottler ==
  \/ RecordRateLimitEvent
  \/ \E cache_hit \in BOOLEAN : UpdateCacheStats(cache_hit)
  \/ \E memory_high \in BOOLEAN : UpdateMemoryUsage(memory_high)
  \/ ThrottlerTick

----------------------------------------------------------------------------
(* WorkerScaler under a control loop that calls scale_up() and             *)
(* scale_down() in turn, the manual operations of the admin route, and the *)
(* engine that reports queue lengths and wait times.  Wait times are in    *)
(* tenths of a second; they arrive as the engine records them for a batch  *)
(* of MinDataPoints urls.                                                  *)

MinWorkers == 1          \* WorkerScaler(min_workers=...)
MaxWorkers == 2          \* WorkerScaler(max_workers=...)
CooldownPeriod == 1      \* WorkerScaler(cooldown_period=...), in ticks
MinDataPoints == 10      \* len(all_wait_times) < 10
\* WorkerScaler(scaling_window=...): as few samples as a percentile needs.
ScalingWindow == MinDataPoints
ScaleUpThreshold == 10       \* scale_up_threshold = 1.0 s
ScaleDownThreshold == 2      \* scale_down_threshold = 0.2 s
QueueLengthScaleUp == 10     \* queue_length_scale_up
QueueLengthScaleDown == 3    \* queue_length_scale_down
WaitLow == 1             \* a wait of 0.1 s
WaitHigh == 20           \* a wait of 2.0 s

\* Processing modes that report to the scaler.
Modes == {"simple", "full"}
\* Long waits in a batch: none, one, all.
HighCounts == {0, 1, MinDataPoints}
\* Lengths a mode's queue is reported with.
QueueLens == {0, QueueLengthScaleUp \div 2, QueueLengthScaleUp}

InitScaler ==
  /\ current_workers = MinWorkers
  /\ since_action = CooldownPeriod
  /\ last_change = CooldownPeriod + 1
  /\ is_scaling_up_mode = FALSE
  /\ is_scaling_down_mode = FALSE
  /\ queue_wait_times = [m \in Modes |-> <<>>]
  /\ queue_lengths = [m \in Modes |-> 0]
  /\ loop = "up"
  /\ scaled = [op |-> "init", ret |-> FALSE]

\* sorted(data)[i], for i from 0: the value with at most i smaller entries
\* and more than i entries that are not larger.
SortedAt(data, i) ==
  LET idx == DOMAIN data IN
  CHOOSE v \in {data[j] : j \in idx} :
    /\ Cardinality({j \in idx : data[j] < v}) <= i
    /\ Cardinality({j \in idx : data[j] <= v}) > i

\* _calculate_percentile(data, 90), times ten: the index 0.9 * (n - 1) is
\* kept in tenths, and the value interpolates between its two neighbours.
Percentile90(data) ==
  IF data = <<>> THEN 0
  ELSE LET n == Len(data)
           index10 == 9 * (n - 1)
           lower_index == index10 \div 10
           upper_index == Min2(lower_index + 1, n - 1)
           fraction10 == index10 % 10
       IN 10 * SortedAt(data, lower_index)
            + fraction10 * (SortedAt(data, upper_index)
                            - SortedAt(data, lower_index))

\* list(mode_wait_times)[-scaling_window:]
LastWindow(q) ==
  IF Len(q) > ScalingWindow
  THEN SubSeq(q, Len(q) - ScalingWindow + 1, Len(q)) ELSE q

AllWaitTimes ==
  LastWindow(queue_wait_times["simple"]) \o LastWindow(queue_wait_times["full"])

\* sum(self.queue_lengths.values())
TotalQueueLength == queue_lengths["simple"] + queue_lengths["full"]

\* should_scale_up_by_wait_time: value returned and the flags it leaves.
UpByWaitTime(up, down) ==
  LET p90 == Percentile90(AllWaitTimes) IN
  IF Len(AllWaitTimes) < MinDataPoints
  THEN [ret |-> FALSE, up |-> up, down |-> down]
  ELSE IF p90 > 10 * ScaleUpThreshold
  THEN [ret |-> TRUE, up |-> TRUE, down |-> FALSE]
  ELSE IF p90 < 10 * ScaleDownThreshold
  THEN [ret |-> FALSE, up |-> FALSE, down |-> down]
  ELSE [ret |-> FALSE, up |-> up, down |-> down]

ShouldScaleUpByLength == TotalQueueLength >= QueueLengthScaleUp

\* should_scale_up: "or" does not evaluate the length test after a True.
ShouldScaleUp(up, down) ==
  LET w == UpByWaitTime(up, down) IN
  [w EXCEPT !.ret = w.ret \/ ShouldScaleUpByLength]

\* should_scale_down_by_wait_time: value returned and the flags it leaves.
DownByWaitTime(up, down) ==
  LET p90 == Percentile90(AllWaitTimes) IN
  IF Len(AllWaitTimes) < MinDataPoints
  THEN [ret |-> FALSE, up |-> up, down |-> down]
  ELSE IF p90 < 10 * ScaleDownThreshold
  THEN [ret |-> current_workers > MinWorkers /\ ~up,
        up |-> up, down |-> TRUE]
  ELSE IF p90 > 10 * ScaleUpThreshold
  THEN [ret |-> FALSE, up |-> up, down |-> FALSE]
  ELSE [ret |-> FALSE, up |-> up, down |-> down]

ShouldScaleDownByLength == TotalQueueLength <= QueueLengthScaleDown

ShouldScaleDown(up, down) ==
  LET w == DownByWaitTime(up, down) IN
  [w EXCEPT !.ret = w.ret /\ ShouldScaleDownByLength]

CanScaleNow == since_action > CooldownPeriod

\* The worker count may grow whatever it is.
BelowMaxAlways(n) == TRUE

BelowMax(n) == n < MaxWorkers

AboveMin(n) == n > MinWorkers

\* deque(maxlen=scaling_window).append
WaitAppend(q, v) ==
  IF Len(q) >= ScalingWindow THEN Append(Tail(q), v) ELSE Append(q, v)

RECURSIVE WaitAppendAll(_, _)
WaitAppendAll(q, vs) ==
  IF vs = <<>> THEN q ELSE WaitAppendAll(WaitAppend(q, Head(vs)), Tail(vs))

\* The waits of one batch: high of them long, the others short.
BatchWaits(high) ==
  [i \in 1..MinDataPoints |->
     IF i <= MinDataPoints - high THEN WaitLow ELSE WaitHigh]

\* add_queue_wait_time, once per url of a batch of mode m.
AddQueueWaitTimes(m, high) ==
  /\ UNCHANGED <<varsSF, varsRL, varsRedis, varsCache, varsPool, varsL1,
                 varsThrottler, varsJobs, varsDo, varsPs, varsFlow>>
  /\ queue_wait_times' =
       [queue_wait_times EXCEPT ![m] = WaitAppendAll(@, BatchWaits(high))]
  /\ queue_wait_times' # queue_wait_times
  /\ scaled' = [op |-> "none", ret |-> FALSE]
  /\ UNCHANGED <<current_workers, since_action, last_change,
                 is_scaling_up_mode, is_scaling_down_mode, queue_lengths,
                 loop>>

UpdateQueueLength(m, length) ==
  /\ UNCHANGED <<varsSF, varsRL, varsRedis, varsCache, varsPool, varsL1,
                 varsThrottler, varsJobs, varsDo, varsPs, varsFlow>>
  /\ queue_lengths[m] # length
  /\ queue_lengths' = [queue_lengths EXCEPT ![m] = length]
  /\ scaled' = [op |-> "none", ret |-> FALSE]
  /\ UNCHANGED <<current_workers, since_action, last_change,
                 is_scaling_up_mode, is_scaling_down_mode, queue_wait_times,
                 loop>>

\* scale_up(): "and" stops at the first False, so should_scale_up() and the
\* flags it writes are skipped at max_workers.
ScaleUp ==
  /\ UNCHANGED <<varsSF, varsRL, varsRedis, varsCache, varsPool, varsL1,
                 varsThrottler, varsJobs, varsDo, varsPs, varsFlow>>
  /\ loop = "up"
  /\ loop' = "down"
  /\ UNCHANGED <<queue_wait_times, queue_lengths>>
  /\ IF ~BelowMax(current_workers)
     THEN /\ scaled' = [op |-> "scale_up", ret |-> FALSE]
          /\ UNCHANGED <<current_workers, since_action, last_change,
                         is_scaling_up_mode, is_scaling_down_mode>>
     ELSE LET s == ShouldScaleUp(is_scaling_up_mode, is_scaling_down_mode)
              go == s.ret /\ CanScaleNow
          IN /\ is_scaling_up_mode' = s.up
             /\ is_scaling_down_mode' = s.down
             /\ scaled' = [op |-> "scale_up", ret |-> go]
             /\ current_workers' =
                  IF go THEN current_workers + 1 ELSE current_workers
             /\ since_action' = IF go THEN 0 ELSE since_action
             /\ last_change' = IF go THEN 0 ELSE last_change

\* scale_down()
ScaleDown ==
  /\ UNCHANGED <<varsSF, varsRL, varsRedis, varsCache, varsPool, varsL1,
                 varsThrottler, varsJobs, varsDo, varsPs, varsFlow>>
  /\ loop = "down"
  /\ loop' = "up"
  /\ UNCHANGED <<queue_wait_times, queue_lengths>>
  /\ IF ~AboveMin(current_workers)
     THEN /\ scaled' = [op |-> "scale_down", ret |-> FALSE]
          /\ UNCHANGED <<current_workers, since_action, last_change,
                         is_scaling_up_mode, is_scaling_down_mode>>
     ELSE LET s == ShouldScaleDown(is_scaling_up_mode, is_scaling_down_mode)
              go == s.ret /\ CanScaleNow
          IN /\ is_scaling_up_mode' = s.up
             /\ is_scaling_down_mode' = s.down
             /\ scaled' = [op |-> "scale_down", ret |-> go]
             /\ current_workers' =
                  IF go THEN current_workers - 1 ELSE current_workers
             /\ since_action' = IF go THEN 0 ELSE since_action
             /\ last_change' = IF go THEN 0 ELSE last_change

\* manual_scaling_operation("scale_up")
ManualScaleUp ==
  /\ UNCHANGED <<varsSF, varsRL, varsRedis, varsCache, varsPool, varsL1,
                 varsThrottler, varsJobs, varsDo, varsPs, varsFlow>>
  /\ UNCHANGED <<is_scaling_up_mode, is_scaling_down_mode, queue_wait_times,
                 queue_lengths, loop>>
  /\ scaled' = [op |-> "manual_scale_up", ret |-> BelowMax(current_workers)]
  /\ IF BelowMax(current_workers)
     THEN /\ current_workers' = current_workers + 1
          /\ since_action' = 0
          /\ last_change' = 0
     ELSE UNCHANGED <<current_workers, since_action, last_change>>
  /\ <<scaled', current_workers'>> # <<scaled, current_workers>>

\* manual_scaling_operation("scale_down")
ManualScaleDown ==
  /\ UNCHANGED <<varsSF, varsRL, varsRedis, varsCache, varsPool, varsL1,
                 varsThrottler, varsJobs, varsDo, varsPs, varsFlow>>
  /\ UNCHANGED <<is_scaling_up_mode, is_scaling_down_mode, queue_wait_times,
                 queue_lengths, loop>>
  /\ scaled' = [op |-> "manual_scale_down", ret |-> AboveMin(current_workers)]
  /\ IF AboveMin(current_workers)
     THEN /\ current_workers' = current_workers - 1
          /\ since_action' = 0
          /\ last_change' = 0
     ELSE UNCHANGED <<current_workers, since_action, last_change>>
  /\ <<scaled', current_workers'>> # <<scaled, current_workers>>

\* manual_scaling_operation("set_workers", value)
SetWorkers(value) ==
  /\ UNCHANGED <<varsSF, varsRL, varsRedis, varsCache, varsPool, varsL1,
                 varsThrottler, varsJobs, varsDo, varsPs, varsFlow>>
  /\ UNCHANGED <<is_scaling_up_mode, is_scaling_down_mode, queue_wait_times,
                 queue_lengths, loop>>
  /\ LET ok == MinWorkers <= value /\ value <= MaxWorkers IN
     /\ scaled' = [op |-> "set_workers", ret |-> ok]
     /\ IF ok
        THEN /\ current_workers' = value
             /\ since_action' = 0
             /\ last_change' = IF value # current_workers THEN 0
                               ELSE last_change
        ELSE UNCHANGED <<current_workers, since_action, last_change>>
  /\ <<scaled', current_workers', since_action'>>
       # <<scaled, current_workers, since_action>>

\* Time passes.
ScalerTick ==
  /\ UNCHANGED <<varsSF, varsRL, varsRedis, varsCache, varsPool, varsL1,
                 varsThrottler, varsJobs, varsDo, varsPs, varsFlow>>
  /\ since_action' = Min2(since_action + 1, CooldownPeriod + 1)
  /\ last_change' = Min2(last_change + 1, CooldownPeriod + 1)
  /\ <<since_action', last_change'>> # <<since_action, last_change>>
  /\ UNCHANGED <<current_workers, is_scaling_up_mode, is_scaling_down_mode,
                 queue_wait_times, queue_lengths, loop, scaled>>

NextScaler ==
  \/ \E m \in Modes, high \in HighCounts : AddQueueWaitTimes(m, high)
  \/ \E m \in Modes, length \in QueueLens : UpdateQueueLength(m, length)
  \/ ScaleUp
  \/ ScaleDown
  \/ ManualScaleUp
  \/ ManualScaleDown
  \/ \E value \in (MinWorkers - 1)..(MaxWorkers + 1) : SetWorkers(value)
  \/ ScalerTick

\* The scaler left to its control loop: no manual operation.
NextScalerLoop ==
  \/ \E m \in Modes, high \in HighCounts : AddQueueWaitTimes(m, high)
  \/ \E m \in Modes, length \in QueueLens : UpdateQueueLength(m, length)
  \/ ScaleUp
  \/ ScaleDown
  \/ ScalerTick

FairScaler ==
  /\ WF_vars(ScaleUp)
  /\ WF_vars(ScaleDown)
  /\ WF_vars(ScalerTick)

----------------------------------------------------------------------------
(* FacebookScraperAPI: create_job, start_worker and the _worker loop, each *)
(* worker streaming its job through TaskEngine.get_multiple_metadata_-     *)
(* streaming; and the same generator called directly on an engine that     *)
(* other requests use at the same time.  A url's call of                   *)
(* get_facebook_metadata is followed up to what it returns or raises.      *)

MaxJobs == 2         \* jobs followed
BatchSize == 2       \* batch_size of the streaming call

\* start_worker(num_workers=...): the worker tasks.
JobWorkers == {"w1", "w2"}
JobIds == 1..MaxJobs
\* The urls followed: one whose scrape succeeds, one whose scrape ends in a
\* failure result (the time-out of the single-flight wait included), and one
\* for which an exception escapes get_facebook_metadata.
UrlOutcome == [good |-> "ok", bad |-> "failed", boom |-> "Exception"]
\* url lists submitted: one with a url twice, one of more than a batch.
UrlLists == {<<"good", "bad", "good">>, <<"boom", "good", "bad">>}
AllUrls == UNION {{l[i] : i \in DOMAIN l} : l \in UrlLists}
\* create_job(chunk_size=...)
ChunkSizes == {BatchSize, BatchSize + 1}
NoJob == [none |-> TRUE]
NoStream == [none |-> TRUE]

\* What get_facebook_metadata does for a url of a batch when no other caller
\* of the engine waits for that url.
PrivateOutcomes(url) == {UrlOutcome[url]}
\* With other callers on the engine the shared future may also be cancelled
\* by the time-out of another caller's wait.
SharedOutcomes(url) == PrivateOutcomes(url) \cup {"CancelledError"}

InitJobs ==
  /\ active_jobs = [j \in JobIds |-> NoJob]
  /\ job_queue = <<>>
  /\ workers_started = FALSE
  /\ wk = [w \in JobWorkers |-> [pc |-> "off", job |-> 0, stream |-> NoStream]]
  /\ gen = NoStream

SeqRange(s) == {s[i] : i \in DOMAIN s}

\* list(dict.fromkeys(urls)): the first occurrence of each url, in order.
Unique(urls) ==
  LET keep == {i \in DOMAIN urls : \A j \in 1..(i - 1) : urls[j] # urls[i]}
      nth(k) == CHOOSE i \in keep : Cardinality({j \in keep : j < i}) = k - 1
  IN [k \in 1..Cardinality(keep) |-> urls[nth(k)]]

\* unique_urls[i:i + batch_size], for the batch that starts at pos.
BatchAt(urls, pos) == SubSeq(urls, pos, Min2(pos + BatchSize - 1, Len(urls)))

\* The tasks created for a batch.
BatchTasks(batch) == [u \in SeqRange(batch) |-> [kind |-> "pending"]]

\* The first call of the generator: the urls without repetition and the
\* tasks of the first batch.
NewStream(urls) ==
  LET unique_urls == Unique(urls) IN
  [urls |-> unique_urls, pos |-> 1,
   tasks |-> BatchTasks(BatchAt(unique_urls, 1)),
   done |-> <<>>, consumed |-> 0, yielded |-> <<>>, finished |-> <<>>,
   outcomes |-> <<>>,
   state |-> IF unique_urls = <<>> THEN "exhausted" ELSE "running"]

\* _process_batch_item lets every exception escape.
ItemCatchesNothing(raised) == FALSE

\* _process_batch_item: "except Exception".
ItemCatches(raised) == raised = "Exception"

\* The worker lets every exception of the job escape.
WorkerCatchesNothing(raised) == FALSE

\* _worker: "except Exception".
WorkerCatches(raised) == raised = "Exception"

\* _process_batch_item(url): what the task ends with.
ItemResult(url, outcome) ==
  IF outcome = "ok"
  THEN [kind |-> "returned", data |-> [url |-> url, success |-> TRUE]]
  ELSE IF outcome = "failed"
  THEN [kind |-> "returned",
        data |-> [url |-> url, success |-> FALSE,
                  error_type |-> "scraping_error"]]
  ELSE IF ItemCatches(outcome)
  THEN [kind |-> "returned",
        data |-> [url |-> url, success |-> FALSE, error |-> outcome]]
  ELSE [kind |-> "raised", exc |-> outcome]

\* A task of the current batch finishes.
TaskDone(st, url, outcome) ==
  [st EXCEPT !.tasks[url] = ItemResult(url, outcome),
             !.done = Append(@, url),
             !.finished = Append(@, url),
             !.outcomes = Append(@, [url |-> url, outcome |-> outcome])]

\* The generator is resumed with a finished task to hand out:
\* asyncio.as_completed gives the tasks in the order they finished; a task
\* that raised raises in the generator, another one is yielded.  After the
\* last task of a batch the next batch is started, or the generator ends.
StreamAdvance(st) ==
  LET url == Head(st.done)
      r == st.tasks[url]
      batch == BatchAt(st.urls, st.pos)
      next_pos == st.pos + BatchSize
  IN IF r.kind = "raised"
     THEN [st EXCEPT !.done = Tail(@), !.state = r.exc]
     ELSE IF st.consumed + 1 < Len(batch)
     THEN [st EXCEPT !.done = Tail(@), !.consumed = @ + 1,
                     !.yielded = Append(@, [url |-> url, data |-> r.data])]
     ELSE IF next_pos <= Len(st.urls)
     THEN [st EXCEPT !.done = <<>>, !.consumed = 0,
                     !.yielded = Append(@, [url |-> url, data |-> r.data]),
                     !.pos = next_pos,
                     !.tasks = BatchTasks(BatchAt(st.urls, next_pos))]
     ELSE [st EXCEPT !.done = Tail(@), !.consumed = @ + 1,
                     !.yielded = Append(@, [url |-> url, data |-> r.data]),
                     !.state = "exhausted"]

PendingUrls(st) ==
  IF st = NoStream \/ st.state # "running" THEN {}
  ELSE {u \in DOMAIN st.tasks : st.tasks[u].kind = "pending"}

\* results[item['url']] = item['data'] over what was yielded.
ResultsOf(yielded) ==
  [u \in {yielded[i].url : i \in DOMAIN yielded} |->
     (CHOOSE i \in DOMAIN yielded :
        /\ yielded[i].url = u
        /\ \A j \in DOMAIN yielded : yielded[j].url = u => j <= i)]

JobResults(yielded) ==
  [u \in DOMAIN ResultsOf(yielded) |-> yielded[ResultsOf(yielded)[u]].data]

\* urls[i:i + chunk_size] for i in range(0, len(urls), chunk_size)
Chunks(urls, chunk_size) ==
  [k \in 1..((Len(urls) + chunk_size - 1) \div chunk_size) |->
     SubSeq(urls, (k - 1) * chunk_size + 1, Min2(k * chunk_size, Len(urls)))]

JobCount == Cardinality({j \in JobIds : active_jobs[j] # NoJob})

\* create_job(urls, chunk_size): one queued job per chunk.
CreateJob(urls, chunk_size) ==
  /\ UNCHANGED <<varsSF, varsRL, varsRedis, varsCache, varsPool, varsL1,
                 varsThrottler, varsScaler, varsDo, varsPs, varsFlow>>
  /\ LET chunks == Chunks(urls, chunk_size)
         first == JobCount + 1
         last == JobCount + Len(chunks)
     IN /\ last <= MaxJobs
        /\ active_jobs' =
             [j \in JobIds |->
                IF j >= first /\ j <= last
                THEN [id |-> j, urls |-> chunks[j - first + 1],
                      status |-> "queued",
                      total_urls |-> Len(chunks[j - first + 1])]
                ELSE active_jobs[j]]
        /\ job_queue' = job_queue \o [k \in 1..Len(chunks) |-> first + k - 1]
  /\ UNCHANGED <<workers_started, wk, gen>>

\* start_worker(num_workers): the worker tasks are created once.
StartWorker ==
  /\ UNCHANGED <<varsSF, varsRL, varsRedis, varsCache, varsPool, varsL1,
                 varsThrottler, varsScaler, varsDo, varsPs, varsFlow>>
  /\ ~workers_started
  /\ workers_started' = TRUE
  /\ wk' = [w \in JobWorkers |-> [wk[w] EXCEPT !.pc = "starting"]]
  /\ UNCHANGED <<active_jobs, job_queue, gen>>

\* _worker: the worker has entered its own scraper and reaches the loop.
WorkerReady(w) ==
  /\ UNCHANGED <<varsSF, varsRL, varsRedis, varsCache, varsPool, varsL1,
                 varsThrottler, varsScaler, varsDo, varsPs, varsFlow>>
  /\ wk[w].pc = "starting"
  /\ wk' = [wk EXCEPT ![w].pc = "idle"]
  /\ UNCHANGED <<active_jobs, job_queue, workers_started, gen>>

\* The job's status and fields when its generator is in state st.
JobAfter(job, st) ==
  IF st.state = "running" THEN job
  ELSE IF st.state = "exhausted"
  THEN [id |-> job.id, urls |-> job.urls, status |-> "completed",
        total_urls |-> job.total_urls, results |-> JobResults(st.yielded)]
  ELSE IF WorkerCatches(st.state)
  THEN [id |-> job.id, urls |-> job.urls, status |-> "failed",
        total_urls |-> job.total_urls, error |-> st.state]
  ELSE job

\* The worker after a step of job j's generator: it goes on with the job,
\* takes the next one, or is ended by what it does not catch.
WorkerAfter(j, st) ==
  IF st.state = "running" THEN [pc |-> "job", job |-> j, stream |-> st]
  ELSE IF st.state = "exhausted" \/ WorkerCatches(st.state)
  THEN [pc |-> "idle", job |-> 0, stream |-> NoStream]
  ELSE [pc |-> "dead", job |-> j, stream |-> st]

\* _worker: job_queue.get(), status running, the generator is started.
WorkerTake(w) ==
  /\ UNCHANGED <<varsSF, varsRL, varsRedis, varsCache, varsPool, varsL1,
                 varsThrottler, varsScaler, varsDo, varsPs, varsFlow>>
  /\ wk[w].pc = "idle"
  /\ job_queue # <<>>
  /\ LET j == Head(job_queue)
         st == NewStream(active_jobs[j].urls)
         running == [active_jobs[j] EXCEPT !.status = "running"]
     IN /\ job_queue' = Tail(job_queue)
        /\ active_jobs' = [active_jobs EXCEPT ![j] = JobAfter(running, st)]
        /\ wk' = [wk EXCEPT ![w] = WorkerAfter(j, st)]
  /\ UNCHANGED <<workers_started, gen>>

\* The worker's scraper fails while it hands the urls to the worker's
\* TaskEngine: the "async for" of the worker raises before any url is done.
FacadeFails(w) ==
  /\ UNCHANGED <<varsSF, varsRL, varsRedis, varsCache, varsPool, varsL1,
                 varsThrottler, varsScaler, varsDo, varsPs, varsFlow>>
  /\ wk[w].pc = "job"
  /\ wk[w].stream.finished = <<>>
  /\ LET st == [wk[w].stream EXCEPT !.state = "Exception"]
         j == wk[w].job
     IN /\ active_jobs' = [active_jobs EXCEPT ![j] = JobAfter(@, st)]
        /\ wk' = [wk EXCEPT ![w] = WorkerAfter(j, st)]
  /\ UNCHANGED <<job_queue, workers_started, gen>>

\* get_facebook_metadata of one url of a worker's batch ends.
JobTaskFinish(w, url, outcome) ==
  /\ UNCHANGED <<varsSF, varsRL, varsRedis, varsCache, varsPool, varsL1,
                 varsThrottler, varsScaler, varsDo, varsPs, varsFlow>>
  /\ wk[w].pc = "job"
  /\ url \in PendingUrls(wk[w].stream)
  /\ wk' = [wk EXCEPT ![w].stream = TaskDone(@, url, outcome)]
  /\ UNCHANGED <<active_jobs, job_queue, workers_started, gen>>

\* _worker: the "async for" gets the next item, or the generator's end or
\* exception.
WorkerNext(w) ==
  /\ UNCHANGED <<varsSF, varsRL, varsRedis, varsCache, varsPool, varsL1,
                 varsThrottler, varsScaler, varsDo, varsPs, varsFlow>>
  /\ wk[w].pc = "job"
  /\ wk[w].stream.done # <<>>
  /\ LET st == StreamAdvance(wk[w].stream)
         j == wk[w].job
     IN /\ active_jobs' = [active_jobs EXCEPT ![j] = JobAfter(@, st)]
        /\ wk' = [wk EXCEPT ![w] = WorkerAfter(j, st)]
  /\ UNCHANGED <<job_queue, workers_started, gen>>

NextJobs ==
  \/ \E urls \in UrlLists, chunk_size \in ChunkSizes :
       CreateJob(urls, chunk_size)
  \/ StartWorker
  \/ \E w \in JobWorkers : WorkerReady(w)
  \/ \E w \in JobWorkers : WorkerTake(w)
  \/ \E w \in JobWorkers : FacadeFails(w)
  \/ \E w \in JobWorkers, url \in AllUrls :
       \E outcome \in PrivateOutcomes(url) : JobTaskFinish(w, url, outcome)
  \/ \E w \in JobWorkers : WorkerNext(w)

\* A step of worker w's task.
WorkerStep(w) ==
  \/ WorkerReady(w)
  \/ WorkerTake(w)
  \/ \E url \in AllUrls :
       \E outcome \in PrivateOutcomes(url) : JobTaskFinish(w, url, outcome)
  \/ WorkerNext(w)

\* The event loop runs a worker task that can take a step.
FairJobs == WF_vars(\E w \in JobWorkers : WorkerStep(w))

\* url lists given to the generator directly: also none, and one url.
StreamLists == UrlLists \cup {<<>>, <<"good">>, <<"boom", "bad", "good", "boom">>}

\* A request calls get_multiple_metadata_streaming(urls) on the shared
\* engine.
StreamCall(urls) ==
  /\ UNCHANGED <<varsSF, varsRL, varsRedis, varsCache, varsPool, varsL1,
                 varsThrottler, varsScaler, varsDo, varsPs, varsFlow>>
  /\ gen = NoStream
  /\ gen' = NewStream(urls)
  /\ UNCHANGED <<active_jobs, job_queue, workers_started, wk>>

StreamTaskFinish(url, outcome) ==
  /\ UNCHANGED <<varsSF, varsRL, varsRedis, varsCache, varsPool, varsL1,
                 varsThrottler, varsScaler, varsDo, varsPs, varsFlow>>
  /\ url \in PendingUrls(gen)
  /\ gen' = TaskDone(gen, url, outcome)
  /\ UNCHANGED <<active_jobs, job_queue, workers_started, wk>>

\* The caller's "async for" asks for the next item.
StreamNext ==
  /\ UNCHANGED <<varsSF, varsRL, varsRedis, varsCache, varsPool, varsL1,
                 varsThrottler, varsScaler, varsDo, varsPs, varsFlow>>
  /\ gen # NoStream
  /\ gen.state = "running"
  /\ gen.done # <<>>
  /\ gen' = StreamAdvance(gen)
  /\ UNCHANGED <<active_jobs, job_queue, workers_started, wk>>

NextStream ==
  \/ \E urls \in StreamLists : StreamCall(urls)
  \/ \E url \in AllUrls :
       \E outcome \in SharedOutcomes(url) : StreamTaskFinish(url, outcome)
  \/ StreamNext

----------------------------------------------------------------------------
(* _execute_single_flight_scrape for one url in one TaskEngine whose Redis *)
(* coordination is not connected: the callers share the future of          *)
(* PureSingleFlight.do; each caller to which do() returns the result       *)
(* stores it, first in the local cache and then, awaiting, in the Redis    *)
(* cache.                                                                  *)

NDoCallers == 3      \* concurrent callers for the url

DoCallers == 1..NDoCallers

InitDo ==
  /\ dpc = [c \in DoCallers |-> "idle"]
  /\ waiters = <<>>
  /\ fut_state = "none"
  /\ ready = <<>>
  /\ got = {}
  /\ l1_by = {}
  /\ l2_by = {}

\* The caller whose do() created the future and the task that scrapes.
DoLeader == Head(waiters)

\* do(): the first caller creates the future, the others find it; each
\* awaits it with wait_for.
DoCall(c) ==
  /\ UNCHANGED <<varsSF, varsRL, varsRedis, varsCache, varsPool, varsL1,
                 varsThrottler, varsScaler, varsJobs, varsPs, varsFlow>>
  /\ dpc[c] = "idle"
  /\ fut_state # "result"
  /\ fut_state' = "pending"
  /\ waiters' = Append(waiters, c)
  /\ dpc' = [dpc EXCEPT ![c] = "waiting"]
  /\ UNCHANGED <<ready, got, l1_by, l2_by>>

\* _execute_and_cleanup: future.set_result(result).  The callbacks of the
\* future are called in the order in which they were added: the waiting
\* callers become ready in the order in which they began to wait.
DoSetResult ==
  /\ UNCHANGED <<varsSF, varsRL, varsRedis, varsCache, varsPool, varsL1,
                 varsThrottler, varsScaler, varsJobs, varsPs, varsFlow>>
  /\ fut_state = "pending"
  /\ fut_state' = "result"
  /\ ready' = waiters
  /\ UNCHANGED <<dpc, waiters, got, l1_by, l2_by>>

\* The event loop resumes the next ready caller: do() returns the result to
\* it, store_result sets the local cache and, with a connected Redis cache,
\* awaits redis_cache.set; without one store_result returns.
DoResume(c, has_redis_cache) ==
  /\ UNCHANGED <<varsSF, varsRL, varsRedis, varsCache, varsPool, varsL1,
                 varsThrottler, varsScaler, varsJobs, varsPs, varsFlow>>
  /\ ready # <<>> /\ Head(ready) = c
  /\ ready' = Tail(ready)
  /\ got' = got \cup {c}
  /\ l1_by' = l1_by \cup {c}
  /\ dpc' = [dpc EXCEPT ![c] = IF has_redis_cache THEN "redis_set" ELSE "done"]
  /\ UNCHANGED <<waiters, fut_state, l2_by>>

\* redis_cache.set of the caller answers; store_result and the caller return.
DoRedisSet(c) ==
  /\ UNCHANGED <<varsSF, varsRL, varsRedis, varsCache, varsPool, varsL1,
                 varsThrottler, varsScaler, varsJobs, varsPs, varsFlow>>
  /\ dpc[c] = "redis_set"
  /\ l2_by' = l2_by \cup {c}
  /\ dpc' = [dpc EXCEPT ![c] = "done"]
  /\ UNCHANGED <<waiters, fut_state, ready, got, l1_by>>

NextDo ==
  \/ \E c \in DoCallers : DoCall(c)
  \/ DoSetResult
  \/ \E c \in DoCallers, has_redis_cache \in BOOLEAN :
       DoResume(c, has_redis_cache)
  \/ \E c \in DoCallers : DoRedisSet(c)

----------------------------------------------------------------------------
(* The followers of one process.  RedisCoordination.connect creates one    *)
(* pubsub object per process; every _wait_as_follower of the process       *)
(* subscribes on it and reads from it.  The leaders are in other           *)
(* processes: they take the lock of a url, publish once and delete the     *)
(* lock.                                                                   *)

NFollowers == 2      \* concurrent _wait_as_follower calls in the process
MaxMessages == 2     \* messages the pubsub holds unread

Followers == 1..NFollowers
Topics == {"k1", "k2"}
NoMessage == [none |-> TRUE]

InitPs ==
  /\ fpc = [f \in Followers |-> "idle"]
  /\ fkey = [f \in Followers |-> ""]
  /\ fres = [f \in Followers |-> NoMessage]
  /\ topics = {}
  /\ buffer = <<>>
  /\ leading = {}

\* A process elsewhere gets the lock of url k with SET NX.
LeaderLocks(k) ==
  /\ UNCHANGED <<varsSF, varsRL, varsRedis, varsCache, varsPool, varsL1,
                 varsThrottler, varsScaler, varsJobs, varsDo, varsFlow>>
  /\ k \notin leading
  /\ leading' = leading \cup {k}
  /\ UNCHANGED <<fpc, fkey, fres, topics, buffer>>

\* execute_with_coordination: SET NX fails, the request is a follower.
Follow(f, k) ==
  /\ UNCHANGED <<varsSF, varsRL, varsRedis, varsCache, varsPool, varsL1,
                 varsThrottler, varsScaler, varsJobs, varsDo, varsFlow>>
  /\ fpc[f] = "idle"
  /\ k \in leading
  /\ fkey' = [fkey EXCEPT ![f] = k]
  /\ fpc' = [fpc EXCEPT ![f] = "subscribing"]
  /\ UNCHANGED <<fres, topics, buffer, leading>>

\* _wait_as_follower: await self._pubsub.subscribe(channel_key)
FollowerSubscribe(f) ==
  /\ UNCHANGED <<varsSF, varsRL, varsRedis, varsCache, varsPool, varsL1,
                 varsThrottler, varsScaler, varsJobs, varsDo, varsFlow>>
  /\ fpc[f] = "subscribing"
  /\ topics' = topics \cup {fkey[f]}
  /\ fpc' = [fpc EXCEPT ![f] = "listening"]
  /\ UNCHANGED <<fkey, fres, buffer, leading>>

\* The leader of url k publishes its result and deletes the lock; the
\* process's pubsub receives the message if it is subscribed to k's channel.
LeaderPublishes(k) ==
  /\ UNCHANGED <<varsSF, varsRL, varsRedis, varsCache, varsPool, varsL1,
                 varsThrottler, varsScaler, varsJobs, varsDo, varsFlow>>
  /\ k \in leading
  /\ Len(buffer) < MaxMessages
  /\ leading' = leading \ {k}
  /\ buffer' = IF k \in topics
               THEN Append(buffer, [channel |-> k, data |-> Dumps(OkResult(k))])
               ELSE buffer
  /\ UNCHANGED <<fpc, fkey, fres, topics>>

\* _wait_as_follower: self._pubsub.get_message(...) hands out the next
\* message the pubsub holds; the follower decodes message['data'], returns
\* it and unsubscribes its channel in the finally block.
FollowerGetMessage(f) ==
  /\ UNCHANGED <<varsSF, varsRL, varsRedis, varsCache, varsPool, varsL1,
                 varsThrottler, varsScaler, varsJobs, varsDo, varsFlow>>
  /\ fpc[f] = "listening"
  /\ buffer # <<>>
  /\ fres' = [fres EXCEPT ![f] = Loads(Head(buffer).data)]
  /\ buffer' = Tail(buffer)
  /\ topics' = topics \ {fkey[f]}
  /\ fpc' = [fpc EXCEPT ![f] = "done"]
  /\ UNCHANGED <<fkey, leading>>

\* _wait_as_follower: the 45 s are over; TimeoutError, unsubscribe.
FollowerGivesUp(f) ==
  /\ UNCHANGED <<varsSF, varsRL, varsRedis, varsCache, varsPool, varsL1,
                 varsThrottler, varsScaler, varsJobs, varsDo, varsFlow>>
  /\ fpc[f] = "listening"
  /\ topics' = topics \ {fkey[f]}
  /\ fpc' = [fpc EXCEPT ![f] = "raised"]
  /\ UNCHANGED <<fkey, fres, buffer, leading>>

NextPs ==
  \/ \E k \in Topics : LeaderLocks(k)
  \/ \E f \in Followers, k \in Topics : Follow(f, k)
  \/ \E f \in Followers : FollowerSubscribe(f)
  \/ \E k \in Topics : LeaderPublishes(k)
  \/ \E f \in Followers : FollowerGetMessage(f)
  \/ \E f \in Followers : FollowerGivesUp(f)

----------------------------------------------------------------------------
(* TaskEngine.get_facebook_metadata from the cache lookup to the fetcher:    *)
(* the order of the steps of one request.                                    *)

\* bounds of the model
NFlowRequests == 2
FlowPermits == 1

FlowRequests == 1..NFlowRequests
FlowUrls == {"u1", "u2"}
OtherProcess == NFlowRequests + 1

EngineWithoutRateLimiter == FALSE

\* scraper_core builds every engine with a rate limiter
HasRateLimiter == TRUE

InitFlow ==
  /\ gpc = [r \in FlowRequests |-> "idle"]
  /\ gurl = [r \in FlowRequests |-> ""]
  /\ trail = [r \in FlowRequests |-> <<>>]
  /\ via_redis = [r \in FlowRequests |-> FALSE]
  /\ nx_lock = [u \in FlowUrls |-> 0]
  /\ flights = [u \in FlowUrls |-> 0]
  /\ stored = {}
  /\ slots = 0
  /\ redis_coordination = TRUE

Passed(r, step) == trail' = [trail EXCEPT ![r] = Append(@, step)]

\* initialize(): the connection to Redis fails and coordination is dropped
InitializeFails ==
  /\ UNCHANGED <<varsSF, varsRL, varsRedis, varsCache, varsPool, varsL1,
                 varsThrottler, varsScaler, varsJobs, varsDo, varsPs>>
  /\ redis_coordination
  /\ \A r \in FlowRequests : gpc[r] = "idle" /\ trail[r] = <<>>
  /\ redis_coordination' = FALSE
  /\ UNCHANGED <<gpc, gurl, trail, via_redis, nx_lock, flights, stored,
                 slots>>

\* get_facebook_metadata(url, mode, use_cache=True) up to the cache lookup
GetMetadata(r, url) ==
  /\ UNCHANGED <<varsSF, varsRL, varsRedis, varsCache, varsPool, varsL1,
                 varsThrottler, varsScaler, varsJobs, varsDo, varsPs>>
  /\ gpc[r] = "idle"
  /\ trail[r] = <<>>
  /\ gpc' = [gpc EXCEPT ![r] = "lookup"]
  /\ gurl' = [gurl EXCEPT ![r] = url]
  /\ UNCHANGED <<trail, via_redis, nx_lock, flights, stored, slots,
                 redis_coordination>>

\* Step 1: get_with_negative_cache; a hit returns, a miss goes on to Redis
\* coordination when there is one and to the in-process single flight
\* otherwise.
CacheLookup(r) ==
  /\ UNCHANGED <<varsSF, varsRL, varsRedis, varsCache, varsPool, varsL1,
                 varsThrottler, varsScaler, varsJobs, varsDo, varsPs>>
  /\ gpc[r] = "lookup"
  /\ IF gurl[r] \in stored
       THEN /\ gpc' = [gpc EXCEPT ![r] = "idle"]
            /\ Passed(r, "hit")
       ELSE /\ gpc' = [gpc EXCEPT ![r] =
                         IF redis_coordination THEN "coordinate" ELSE "do"]
            /\ Passed(r, "miss")
  /\ UNCHANGED <<gurl, via_redis, nx_lock, flights, stored, slots,
                 redis_coordination>>

\* execute_with_coordination: SET NX makes the request the Redis leader,
\* which runs _execute_single_flight_scrape; a held lock makes it a follower;
\* a Redis error is caught by get_facebook_metadata, which falls through to
\* the in-process single flight.
Coordinate(r, redis_error) ==
  /\ UNCHANGED <<varsSF, varsRL, varsRedis, varsCache, varsPool, varsL1,
                 varsThrottler, varsScaler, varsJobs, varsDo, varsPs>>
  /\ gpc[r] = "coordinate"
  /\ IF redis_error
       THEN /\ gpc' = [gpc EXCEPT ![r] = "do"]
            /\ Passed(r, "redis_error")
            /\ UNCHANGED <<via_redis, nx_lock>>
       ELSE IF nx_lock[gurl[r]] = 0
         THEN /\ nx_lock' = [nx_lock EXCEPT ![gurl[r]] = r]
              /\ via_redis' = [via_redis EXCEPT ![r] = TRUE]
              /\ gpc' = [gpc EXCEPT ![r] = "do"]
              /\ Passed(r, "redis_leader")
         ELSE /\ gpc' = [gpc EXCEPT ![r] = "follow"]
              /\ Passed(r, "redis_follower")
              /\ UNCHANGED <<via_redis, nx_lock>>
  /\ UNCHANGED <<gurl, flights, stored, slots, redis_coordination>>

\* _wait_as_follower ends: with the published result or a TimeoutError the
\* request returns; any other error falls through to the in-process single
\* flight.
FollowerEnds(r, outcome) ==
  /\ UNCHANGED <<varsSF, varsRL, varsRedis, varsCache, varsPool, varsL1,
                 varsThrottler, varsScaler, varsJobs, varsDo, varsPs>>
  /\ gpc[r] = "follow"
  /\ outcome = "result" => nx_lock[gurl[r]] = 0
  /\ gpc' = [gpc EXCEPT ![r] = IF outcome = "error" THEN "do" ELSE "idle"]
  /\ Passed(r, outcome)
  /\ UNCHANGED <<gurl, via_redis, nx_lock, flights, stored, slots,
                 redis_coordination>>

\* another process takes or gives back the Redis lock of a url
OtherProcessLock(url) ==
  /\ UNCHANGED <<varsSF, varsRL, varsRedis, varsCache, varsPool, varsL1,
                 varsThrottler, varsScaler, varsJobs, varsDo, varsPs>>
  /\ redis_coordination
  /\ nx_lock[url] \in {0, OtherProcess}
  /\ nx_lock' = [nx_lock EXCEPT ![url] = IF @ = 0 THEN OtherProcess ELSE 0]
  /\ UNCHANGED <<gpc, gurl, trail, via_redis, flights, stored, slots,
                 redis_coordination>>

\* _perform_scrape begins with rate_limiter.acquire() when there is a limiter
AfterLeader == IF HasRateLimiter THEN "acquire" ELSE "fetch"

\* PureSingleFlight.do: the first caller for the url creates the task that
\* runs _perform_scrape (the leader); the others await its future.
Do(r) ==
  /\ UNCHANGED <<varsSF, varsRL, varsRedis, varsCache, varsPool, varsL1,
                 varsThrottler, varsScaler, varsJobs, varsDo, varsPs>>
  /\ gpc[r] = "do"
  /\ IF flights[gurl[r]] = 0
       THEN /\ flights' = [flights EXCEPT ![gurl[r]] = r]
            /\ gpc' = [gpc EXCEPT ![r] = AfterLeader]
            /\ Passed(r, "leader")
       ELSE /\ gpc' = [gpc EXCEPT ![r] = "await"]
            /\ Passed(r, "follower")
            /\ UNCHANGED flights
  /\ UNCHANGED <<gurl, via_redis, nx_lock, stored, slots,
                 redis_coordination>>

\* rate_limiter.acquire() returns: a permit and a timestamp are taken
FlowAcquire(r) ==
  /\ UNCHANGED <<varsSF, varsRL, varsRedis, varsCache, varsPool, varsL1,
                 varsThrottler, varsScaler, varsJobs, varsDo, varsPs>>
  /\ gpc[r] = "acquire"
  /\ slots < FlowPermits
  /\ slots' = slots + 1
  /\ gpc' = [gpc EXCEPT ![r] = "fetch"]
  /\ Passed(r, "slot")
  /\ UNCHANGED <<gurl, via_redis, nx_lock, flights, stored,
                 redis_coordination>>

\* what a Redis leader does after fn: publish and delete the lock; when the
\* publish raises, get_facebook_metadata falls through to a second
\* single flight
AfterScrape(r, publish_fails) ==
  IF via_redis[r] /\ publish_fails THEN "do" ELSE "idle"

\* The retry loop of _perform_scrape invokes the fetcher; then the permit is
\* released, the flight is removed, the leader stores the result and, as the
\* Redis leader, publishes and deletes its lock.
Fetch(r, success, publish_fails) ==
  /\ UNCHANGED <<varsSF, varsRL, varsRedis, varsCache, varsPool, varsL1,
                 varsThrottler, varsScaler, varsJobs, varsDo, varsPs>>
  /\ gpc[r] = "fetch"
  /\ Passed(r, "fetch")
  /\ slots' = IF HasRateLimiter THEN slots - 1 ELSE slots
  /\ flights' = [flights EXCEPT ![gurl[r]] = 0]
  /\ stored' = IF success THEN stored \cup {gurl[r]} ELSE stored
  /\ nx_lock' = IF via_redis[r] THEN [nx_lock EXCEPT ![gurl[r]] = 0]
                                ELSE nx_lock
  /\ via_redis' = [via_redis EXCEPT ![r] = FALSE]
  /\ gpc' = [gpc EXCEPT ![r] = AfterScrape(r, publish_fails)]
  /\ UNCHANGED <<gurl, redis_coordination>>

\* an in-process follower gets the leader's result from the future
Await(r) ==
  /\ UNCHANGED <<varsSF, varsRL, varsRedis, varsCache, varsPool, varsL1,
                 varsThrottler, varsScaler, varsJobs, varsDo, varsPs>>
  /\ gpc[r] = "await"
  /\ flights[gurl[r]] = 0
  /\ gpc' = [gpc EXCEPT ![r] = "idle"]
  /\ Passed(r, "shared")
  /\ UNCHANGED <<gurl, via_redis, nx_lock, flights, stored, slots,
                 redis_coordination>>

NextFlow ==
  \/ InitializeFails
  \/ \E r \in FlowRequests, url \in FlowUrls : GetMetadata(r, url)
  \/ \E r \in FlowRequests : CacheLookup(r)
  \/ \E r \in FlowRequests, redis_error \in BOOLEAN :
       Coordinate(r, redis_error)
  \/ \E r \in FlowRequests, outcome \in {"result", "TimeoutError", "error"} :
       FollowerEnds(r, outcome)
  \/ \E url \in FlowUrls : OtherProcessLock(url)
  \/ \E r \in FlowRequests : Do(r)
  \/ \E r \in FlowRequests : FlowAcquire(r)
  \/ \E r \in FlowRequests, success \in BOOLEAN, publish_fails \in BOOLEAN :
       Fetch(r, success, publish_fails)
  \/ \E r \in FlowRequests : Await(r)

----------------------------------------------------------------------------
Init ==
  /\ InitSF
  /\ InitRL
  /\ InitRedis
  /\ InitCache
  /\ InitPool
  /\ InitL1
  /\ InitThrottler
  /\ InitScaler
  /\ InitJobs
  /\ InitDo
  /\ InitPs
  /\ InitFlow

Spec == Init /\ [][Next]_vars

SpecRL == Init /\ [][NextRL]_vars

\* The event loop runs every task that can take a step, and time passes.
FairRL ==
  /\ \A w \in Workers : WF_vars(RlSemAcquire(w))
  /\ \A w \in Workers : WF_vars(RlEnter(w))
  /\ \A w \in Workers : WF_vars(RlWake(w))
  /\ \A w \in Workers : WF_vars(RlReacquire(w))
  /\ \A w \in Workers : WF_vars(RlFetchOk(w) \/ RlFetchFail(w))
  /\ WF_vars(RlTick)

SpecRLFair == SpecRL /\ FairRL

SpecRedis == Init /\ [][NextRedis]_vars

SpecCache == Init /\ [][NextCache]_vars

SpecPool == Init /\ [][NextPool]_vars

SpecL1 == Init /\ [][NextL1]_vars

SpecThrottler == Init /\ [][NextThrottler]_vars

SpecScaler == Init /\ [][NextScaler]_vars

SpecScalerFair == Init /\ [][NextScalerLoop]_vars /\ FairScaler

SpecJobs == Init /\ [][NextJobs]_vars

SpecJobsFair == SpecJobs /\ FairJobs

SpecStream == Init /\ [][NextStream]_vars

SpecDo == Init /\ [][NextDo]_vars

SpecPs == Init /\ [][NextPs]_vars

SpecFlow == Init /\ [][NextFlow]_vars
----------------------------------------------------------------------------
(* Claims.                                                                 *)

InProgress(f) == task[f].pc \in {"acquire", "attempt"}

\* C1: for every key, at most one execution of fn (the scrape task that
\* PureSingleFlight.do started) is in progress at any time.
C1_AtMostOneExecution ==
  \A f, g \in Futs :
    (InProgress(f) /\ InProgress(g) /\ task[f].key = task[g].key) => f = g

\* C3: every _perform_scrape that acquired a slot has released it when it
\* returns: the free slots are max_concurrent minus the scrapes still running.
C3_SlotReleasedOnEveryExit ==
  sem = MaxConcurrent - Cardinality({f \in Futs : task[f].pc = "attempt"})

\* The live entry of key k in the L1 cache, None when there is none.
LiveEntry(k) ==
  LET i == IndexOf(cache, k) IN
  IF i # 0 /\ cache[i].age <= cache[i].ttl THEN cache[i] ELSE None

\* Caller c issues its request for k in this step.
IssuesRequest(c, k) == pc[c] = "idle" /\ pc'[c] # "idle" /\ ckey'[c] = k

\* C6: a request for a url whose successful result is cached and live returns
\* that result with from_cache = TRUE, the same fields and values otherwise,
\* and starts no scrape.
C6_CacheRoundTrip ==
  [][\A c \in Callers, k \in Keys :
       (/\ IssuesRequest(c, k)
        /\ LiveEntry(k) # None
        /\ Get(LiveEntry(k).data, "success", FALSE))
       => /\ pc'[c] = "done"
          /\ ret'[c] = [LiveEntry(k).data EXCEPT !.from_cache = TRUE]
          /\ task' = task]_vars

\* C7: a request for a url whose failure is cached and live returns
\* success = FALSE, the recorded error kind and from_cache = TRUE, and starts
\* no scrape.
C7_NegativeCacheServed ==
  [][\A c \in Callers, k \in Keys :
       (/\ IssuesRequest(c, k)
        /\ LiveEntry(k) # None
        /\ ~Get(LiveEntry(k).data, "success", FALSE))
       => /\ pc'[c] = "done"
          /\ Has(ret'[c], "success") /\ ret'[c].success = FALSE
          /\ Has(ret'[c], "error_type")
          /\ ret'[c].error_type = LiveEntry(k).data.error_type
          /\ Get(ret'[c], "from_cache", FALSE)
          /\ task' = task]_vars

\* C8: no caller of do() is cancelled: after another caller's timeout a
\* waiting caller still gets the leader's result or its own timeout.
C8_TimeoutLeavesOthersAlone ==
  \A c \in Callers : pc[c] = "done" => ret[c] # CancelledError

\* C9: a caller whose single-flight wait timed out returns success = FALSE
\* with error kind service_unavailable.
C9_TimeoutIsServiceUnavailable ==
  [][\A c \in Callers :
       (pc[c] = "timedout" /\ pc'[c] = "done")
       => /\ ret'[c].success = FALSE
          /\ ret'[c].error_type = "service_unavailable"]_vars

\* Slots that were granted and will never be released: the scrape that held
\* them has returned.
Leaked ==
  MaxConcurrent - rlSem - Cardinality({w \in Workers : wpc[w] \in {"lock", "attempt"}})

InAcquire(w) == wpc[w] \in {"sem", "lock", "sleep", "resem"}

\* C4: if every granted slot is released again, every acquire() returns.
C4_AcquireReturns ==
  ([](Leaked = 0)) => \A w \in Workers : [](InAcquire(w) => <>(~InAcquire(w)))

RECURSIVE SumTo(_, _)
SumTo(fc, a) == IF a < 0 THEN 0 ELSE fc[a] + SumTo(fc, a - 1)
FetchesInWindow == SumTo(fetchCnt, Window - 1)

\* C5: in every window of 60 s at most max_requests_per_minute fetch attempts
\* start.
C5_FetchesWithinLimit == FetchesInWindow <= MaxPerMinute

\* Scrapes that acquire() admitted within the last 60 s.
GrantsInWindow ==
  Cardinality({i \in 1..Len(rlStamps) : rlStamps[i] < Window})

\* C5, amended: in every window of 60 s at most max_requests_per_minute
\* scrapes are admitted by acquire(); the retries of an admitted scrape are
\* not counted.
C5_GrantsWithinLimit == GrantsInWindow <= MaxPerMinute

\* A scrape was admitted after it had to wait for the window: the time stamp
\* it waited for is still in the deque, behind it the full window.
C5_Witness ==
  /\ Len(rlStamps) = MaxPerMinute + 1
  /\ Head(rlStamps) >= Window
  /\ GrantsInWindow = MaxPerMinute
  /\ \E w \in Workers : wpc[w] = "attempt"

\* C2: for every url at most one request at a time runs the scrape as leader.
C2_AtMostOneLeader ==
  \A q, r \in Requests :
    (rpc[q] = "leader" /\ rpc[r] = "leader" /\ rkey[q] = rkey[r]) => q = r

\* C10: a follower whose wait ended in the 45 s timeout returns
\* service_unavailable and never runs the scrape, directly or in the fallback.
C10_FollowerTimeoutFailsFast ==
  \A r \in Requests :
    rexc[r] = "TimeoutError" =>
      \/ rpc[r] = "raised"
      \/ rpc[r] = "done" /\ rres[r] = ServiceUnavailable(rkey[r])

\* A follower timed out and its request has returned.
C10_Witness ==
  \E r \in Requests : rexc[r] = "TimeoutError" /\ rpc[r] = "done"

\* C11: when a Redis operation of the coordination fails (lock acquisition,
\* subscribe, message receive), the request goes on to the in-process
\* single-flight and returns what that gives, never the coordination error.
C11_RedisErrorFallsThrough ==
  [][\A r \in Requests :
       /\ (rpc[r] = "direct" /\ rpc'[r] # "direct")
            => rpc'[r] = "done" /\ rres'[r] \in ScrapeOutcomes(rkey[r])
       /\ (rpc[r] = "raised" /\ rexc[r] = "Exception" /\ rpc'[r] # "raised")
            => rpc'[r] = "fallback"
       /\ (rexc'[r] = "Exception" /\ rpc'[r] = "done")
            => /\ rpc[r] \in {"fallback", "done"}
               /\ rres'[r] \in ScrapeOutcomes(rkey[r])]_vars

\* A request whose subscribe or get_message raised has returned.
C11_Witness ==
  \E r \in Requests : rexc[r] = "Exception" /\ rpc[r] = "done"

\* Every caller that awaited future f has given up or returned.
Abandoned(f) ==
  /\ \E c \in Callers : cfut[c] = f
  /\ \A c \in Callers : cfut[c] = f => pc[c] \in {"timedout", "done"}

\* C12: when the leader's scrape succeeds after every caller waiting for the
\* key has timed out, its result is in the cache from then on, ready for the
\* next request.
C12_LateResultCached ==
  [][\A f \in Futs :
       (/\ task[f].pc = "attempt" /\ task'[f].pc = "finished"
        /\ Get(task'[f].result, "success", FALSE)
        /\ Abandoned(f))
       => LET i == IndexOf(cache', task[f].key) IN
          i # 0 /\ cache'[i].data = task'[f].result]_vars

\* The error kinds for which a negative entry may be written.
NegativeKinds == {"rate_limited", "checkpoint", "scraping_error"}

\* C13: a negative entry is in the cache only for a failure whose error kind
\* is rate_limited, checkpoint or scraping_error.
C13_NegativeOnlyForListedKinds ==
  \A i \in 1..Len(cache) :
    ~Get(cache[i].data, "success", FALSE)
      => Get(cache[i].data, "error_type", "absent") \in NegativeKinds

\* The result inside what a lookup returned: L1 returns its entry, Redis the
\* stored result.
Payload(v) == IF Has(v, "data") THEN v.data ELSE v

\* C14: no negative entry is served, from either tier, more than 30 s after
\* the failure was recorded.
C14_NegativeServedWithinTtl ==
  (served # None /\ ~Get(Payload(served), "success", FALSE))
    => Payload(served).timestamp <= NegativeTtl

\* The pages created so far.
AllPages ==
  {pg \in [ctx : CtxIds, n : 1..(MaxPagesPerContext + NScrapers)] :
     pg.n <= made[pg.ctx]}

\* How often page pg is in the lists of the pool.
InLists(pg) ==
  Cardinality({i \in 1..Len(avail[pg.ctx]) : avail[pg.ctx][i] = pg})

Holders(pg) == {s \in Scrapers : held[s] = pg}

\* C15: a page is on loan to at most one caller at a time, and every page
\* handed out is given back exactly once: each page is either once in the
\* pool's lists or with exactly one scraper that is still using it.
C15_PageLoanedOnceReturnedOnce ==
  /\ \A pg \in AllPages : InLists(pg) + Cardinality(Holders(pg)) = 1
  /\ \A s \in Scrapers : held[s] # None <=> ppc[s] = "using"

\* Two pages are on loan and a third, which had been on loan, is back.
C15_Witness ==
  /\ Cardinality({s \in Scrapers : ppc[s] = "using"}) >= 2
  /\ \E pg \in AllPages : InLists(pg) = 1 /\ pg.n > MaxPagesPerContext

\* C16: the number of live browser contexts never exceeds max_contexts.
C16_ContextsWithinLimit == Cardinality(live) <= MaxContexts

\* C17: between its creation and its retirement a context is loaned at most
\* context_reuse_limit times.
C17_LoansWithinReuseLimit == \A c \in CtxIds : loans[c] <= ReuseLimit

\* A context has been retired after its loans, and its successor is on loan.
C17_Witness ==
  \E c \in CtxIds :
    /\ c <= created /\ c \notin live /\ loans[c] = ReuseLimit - 1
    /\ \E d \in live : loans[d] > 0

\* C18: at most max_concurrent callers have returned from acquire() without
\* having called release(), and a caller waiting for the 60 s window holds
\* no slot: the slots not free are those of such callers and of the callers
\* between the semaphore and the lock.
C18_SlotsWithinLimit ==
  /\ granted <= MaxConcurrent
  /\ rlSem + granted + Cardinality({w \in Workers : wpc[w] = "lock"})
       = MaxConcurrent

\* A caller sleeps for the window, and every slot is free.
C18_Witness ==
  /\ \E w \in Workers : wpc[w] = "sleep"
  /\ rlSem = MaxConcurrent

\* An entry of another key than the one set is gone after the step.
RemovedToMakeRoom ==
  \E i \in 1..Len(mc) :
    /\ mc[i].key # lastOp'.key
    /\ \A j \in 1..Len(mc') : mc'[j].key # mc[i].key

\* C19: the cache never holds more than max_size entries, and a set that
\* removes an entry to make room adds one to eviction_count.
C19_SizeBoundedEvictionsCounted ==
  [][/\ Len(mc') <= MaxSize
     /\ (lastOp'.op = "set" /\ RemovedToMakeRoom)
          => stat'.eviction_count = stat.eviction_count + 1]_vars

\* The cache is full after a set that evicted.
C19_Witness ==
  /\ lastOp.op = "set" /\ lastOp.metric = "cache_eviction"
  /\ Len(mc) = MaxSize /\ stat.eviction_count > 0

\* C20: a get on an entry with now - inserted_at >= ttl returns no value and
\* is counted and reported as a miss with reason expired.
C20_ExpiredReadIsMiss ==
  [][\A k \in Keys :
       (/\ lastOp'.op = "get" /\ lastOp'.key = k
        /\ IndexOf(mc, k) # 0
        /\ mc[IndexOf(mc, k)].age >= mc[IndexOf(mc, k)].ttl)
       => /\ lastOp'.val = None
          /\ stat'.misses = stat.misses + 1
          /\ lastOp'.metric = "cache_miss:expired"]_vars

\* C21: every record_rate_limit_event leaves current_delay strictly greater
\* than before, unless current_delay already equals max_delay.
C21_EventRaisesDelay ==
  [][rate_limit_events' # rate_limit_events
       => (current_delay' > current_delay \/ current_delay = MaxDelay)]_vars

\* C22: after any sequence of scale_up(), scale_down() and manual scaling
\* operations, min_workers <= current_workers <= max_workers.
C22_WorkersWithinBounds ==
  MinWorkers <= current_workers /\ current_workers <= MaxWorkers

\* The pool is at max_workers and a manual scale-up was just refused.
C22_Witness ==
  /\ current_workers = MaxWorkers
  /\ scaled = [op |-> "manual_scale_up", ret |-> FALSE]

\* C23: two consecutive changes of current_workers are at least
\* cooldown_period apart.
C23_CooldownBetweenActions ==
  [][current_workers' # current_workers => last_change >= CooldownPeriod]_vars

ScaleUpTrigger ==
  \/ Percentile90(AllWaitTimes) > 10 * ScaleUpThreshold
  \/ \E m \in Modes : queue_lengths[m] >= QueueLengthScaleUp

\* C24: scale_up() adds a worker only if the P90 of the recent waits is above
\* scale_up_threshold or one single mode's queue length is at least
\* queue_length_scale_up, and then it adds exactly one worker.
C24_ScaleUpOnlyOnTrigger ==
  [][(scaled'.op = "scale_up" /\ current_workers' # current_workers)
       => (ScaleUpTrigger /\ current_workers' = current_workers + 1)]_vars

\* The P90 wait is below scale_down_threshold, every mode's queue length is
\* at most queue_length_scale_down and there is a worker to give up.
Calm ==
  /\ Len(AllWaitTimes) >= MinDataPoints
  /\ Percentile90(AllWaitTimes) < 10 * ScaleDownThreshold
  /\ \A m \in Modes : queue_lengths[m] <= QueueLengthScaleDown
  /\ current_workers > MinWorkers

\* C25: while the load stays calm and current_workers > min_workers, the
\* control loop eventually gets True from scale_down(), whatever scale-up
\* episodes happened before.
C25_CalmLeadsToScaleDown ==
  Calm ~> (~Calm \/ scaled = [op |-> "scale_down", ret |-> TRUE])

\* A job's status moves one step along queued, running, completed | failed.
StatusStep(old, new) ==
  \/ old = new
  \/ old = "queued" /\ new = "running"
  \/ old = "running" /\ new \in {"completed", "failed"}

JobSettled(j) ==
  active_jobs[j] # NoJob /\ active_jobs[j].status \in {"completed", "failed"}

FailedUrls(w) ==
  {wk[w].stream.outcomes[i].url :
     i \in {k \in DOMAIN wk[w].stream.outcomes :
              wk[w].stream.outcomes[k].outcome # "ok"}}

YieldedUrls == [i \in DOMAIN gen.yielded |-> gen.yielded[i].url]

\* C28: when the generator has ended, it has yielded one item for each
\* distinct url of the input list and none twice, in the order in which the
\* urls finished.
C28_StreamYieldsEachUrlOnce ==
  (gen # NoStream /\ gen.state # "running") =>
    /\ SeqRange(YieldedUrls) = SeqRange(gen.urls)
    /\ Len(YieldedUrls) = Len(gen.urls)
    /\ YieldedUrls = gen.finished

\* The leader's write of the result to the cache tiers is done: its
\* store_result has returned.
LeaderWriteDone == DoLeader \in l1_by /\ dpc[DoLeader] = "done"

\* C29: when do() has returned the leader's result to a follower, the
\* leader's write of the result to the local cache and to the Redis cache is
\* done.
C29_WriteBeforeFollower ==
  \A c \in got : c # DoLeader => LeaderWriteDone

\* The renewal of request r's lock has ended while its scrape is running.
FormerLeader(r) == rpc[r] = "leader" /\ ~renew[r]

\* C30: a leader whose lock renewal has failed, or whose lock has expired,
\* while its scrape is running does not afterwards take the scrape's result
\* (which _execute_single_flight_scrape has written to the cache) on to the
\* publish.
C30_FormerLeaderAbandons ==
  [][\A r \in Requests : FormerLeader(r) => rpc'[r] # "publish"]_vars

\* C38: a leader deletes the lock of its key only while the lock holds its
\* own process id, and no renewal task runs for a lock that another process
\* holds.
C38_OwnLockOnly ==
  /\ [][\A r \in Requests :
          (rpc[r] = "cleanup" /\ rpc'[r] = "done"
             /\ lock'[rkey[r]] # lock[rkey[r]]) =>
            lock[rkey[r]] = ProcOf(r)]_vars
  /\ [](\A r \in Requests :
          renew[r] => lock[rkey[r]] \in {0, ProcOf(r)})

\* The message that leader q publishes is in the inbox of r's process.
Delivered(q, r, box) ==
  \E i \in DOMAIN box[ProcOf(r)] :
    box[ProcOf(r)][i] = [channel |-> rkey[q], data |-> Dumps(rres[q])]

\* C40: when a leader publishes its result, every request that lost the lock
\* contest for the key and still waits (before or after its subscribe) gets
\* the message.
C40_WaitingFollowerReceives ==
  [][\A q, r \in Requests :
       (/\ rpc[q] = "publish" /\ rpc'[q] = "cleanup"
        /\ rkey[r] = rkey[q]
        /\ rpc[r] \in {"subscribing", "listening"}) =>
         Delivered(q, r, inbox')]_vars

\* C31: the payload a follower returns was published for the url it waits
\* for.
C31_OwnTopicOnly ==
  \A f \in Followers :
    (fpc[f] = "done" /\ fres[f] # NoMessage) => fres[f].url = fkey[f]

\* C32: a pass of the retry loop (a fetch attempt) is at most the third of
\* its _perform_scrape call, and the wait before the n-th retry is 2^n
\* seconds.
C32_ThreeAttemptsWithBackoff ==
  [][\A f \in Futs :
       (task[f].pc = "attempt" /\ task'[f] # task[f]) =>
         /\ task[f].retry + 1 <= 3
         /\ task'[f].retry = task[f].retry + 1 =>
              task'[f].wait = 2 ^ task'[f].retry]_vars

\* the i-th step of t, a fetch, comes after a cache miss, then a step that
\* made the request the leader, then a granted slot, the last two later than
\* any earlier fetch
Ordered(t, i) ==
  /\ t[1] = "miss"
  /\ \E a, b \in 2..(i - 1) :
       /\ a < b
       /\ t[a] = "leader"
       /\ t[b] = "slot"
       /\ \A j \in a..(i - 1) : t[j] # "fetch"

C34_BrokenPageNotLoaned ==
  \A s \in Scrapers : held[s] # None => held[s] \notin broken

\* C35: the active-pages gauge never exceeds
\* max_contexts * max_pages_per_context.
C35_GaugeWithinCeiling == active_pages <= MaxContexts * MaxPagesPerContext

\* C39: get_page() closes a context only when none of its pages is on loan:
\* the context of every page on loan is live.
C39_NoCloseUnderLoan ==
  \A s \in Scrapers : held[s] # None => held[s].ctx \in live

\* _apply_throttle has run in the step
RuleFired ==
  \/ throttle_reason' # throttle_reason
  \/ throttle_multiplier' # throttle_multiplier
  \/ current_delay' # current_delay

\* C36: a throttling rule that fires never leaves current_delay lower than
\* it was before.
C36_RuleNeverLowersDelay ==
  [][RuleFired => current_delay' >= current_delay]_vars

\* C37: whenever acquire() starts a forced wait because the 60 s window is
\* full, the throttler's window of rate-limit events receives an event.
C37_ForcedWaitRecorded ==
  [][\A w \in Workers :
       (wpc[w] = "lock" /\ wpc'[w] = "sleep") =>
         rate_limit_events' = rate_limit_events + 1]_vars
====
